---- MODULE Spec2Model ----
(***************************************************************************)
(* Model of the command-binding engine of the pymeasure instrument drivers *)
(* (AlphaOmegaSemiconductor/pymeasure): addressable nodes (Instrument,     *)
(* Channel/SubSystem, CommandGroupSubSystem), placeholder substitution,    *)
(* the property get/set protocol and the driver property tables.           *)
(*                                                                         *)
(* A Python string is modelled as the sequence of lexical tokens that      *)
(* str.format_map sees: "{", "}", and maximal runs of other characters.    *)
(* Join turns a token sequence into the string put on the wire.            *)
(***************************************************************************)
EXTENDS Integers, Sequences, FiniteSets, TLC

VARIABLES insts,      \* slot -> model of the Keysight supply constructed there
          shadow,     \* per-instance overrides of dynamic property values
          clsValues,  \* class-level `values` of VoltageChannel's properties
          op,         \* the last operation: its inputs and its outcome
          wire,       \* what the last operation put on / took off the transport
          callers,    \* each caller's position in the call it is executing
          lock,       \* the locking discipline and the locks currently held
          dev         \* the instrument side: error queue, pending responses

vars == <<insts, shadow, clsValues, op, wire, callers, lock, dev>>

-----------------------------------------------------------------------------
(* Bounds *)

MaxLen == 6          \* longest free-form command string, in tokens
MaxInst == 2         \* number of Keysight supplies that may be constructed
MaxId == 2           \* channels modelled per multi-channel instrument
MaxErrors == 2       \* entries the instrument may hold in its error queue
MaxCallers == 2      \* concurrent callers of one program
MaxQueue == 6        \* longest error queue drained one query at a time
MaxOps == 2          \* completed gets whose history is kept
MaxFaults == 2       \* transport failures injected into one call

-----------------------------------------------------------------------------
(* Strings *)

LB == "{"
RB == "}"

RECURSIVE Join(_)
Join(s) == IF s = <<>> THEN "" ELSE Head(s) \o Join(Tail(s))

RECURSIVE SeqsUpTo(_, _)
SeqsUpTo(S, n) ==
    IF n = 0 THEN {<<>>}
    ELSE LET shorter == SeqsUpTo(S, n - 1)
         IN  shorter \cup {Append(s, t) : s \in {q \in shorter : Len(q) = n - 1}, t \in S}

Contains(s, t) == \E i \in 1..Len(s) : s[i] = t

\* s contains the field {name} as three consecutive tokens
HasField(s, name) ==
    \E i \in 1..(Len(s) - 2) : s[i] = LB /\ s[i + 1] = name /\ s[i + 2] = RB

Count(s, t) == Cardinality({i \in 1..Len(s) : s[i] = t})

SubSeqFrom(s, i) == SubSeq(s, i, Len(s))

-----------------------------------------------------------------------------
(* str.format_map *)

\* decimal tokens: a field whose name is a number is a positional field
NumTokens == {ToString(i) : i \in 0..9}

\* the key looked up for a field name: the part before the first "."
FirstKey(name) == IF name = "self.number" THEN "self" ELSE name

Ok(out) == [ok |-> TRUE, out |-> out, err |-> "none"]
Err(e) == [ok |-> FALSE, out |-> <<>>, err |-> e]

RECURSIVE FormatMap(_, _)
FormatMap(s, map) ==
    IF s = <<>> THEN Ok(<<>>)
    ELSE LET h == Head(s)
             Lit(tok, rest) ==
                 LET r == FormatMap(rest, map)
                 IN  IF r.ok THEN Ok(<<tok>> \o r.out) ELSE r
         IN  IF h = LB THEN
                 IF Len(s) = 1 THEN Err("ValueError")
                 ELSE IF s[2] = LB THEN Lit(LB, SubSeqFrom(s, 3))
                 ELSE IF s[2] = RB THEN Err("ValueError")
                 ELSE IF Len(s) < 3 \/ s[3] # RB THEN
                      \* the field name runs over several tokens
                      LET braces == {i \in 3..Len(s) : s[i] \in {LB, RB}}
                          close == CHOOSE i \in braces : \A j \in braces : i <= j
                      IN  IF braces = {} THEN Err("ValueError")
                          ELSE IF s[close] = LB THEN Err("ValueError")
                          ELSE IF \A i \in 2..(close - 1) : s[i] \in NumTokens
                               THEN Err("ValueError")
                          ELSE Err("KeyError")
                 ELSE IF s[2] \in NumTokens THEN Err("ValueError")
                 ELSE IF FirstKey(s[2]) \notin DOMAIN map THEN Err("KeyError")
                 ELSE Lit(map[FirstKey(s[2])], SubSeqFrom(s, 4))
             ELSE IF h = RB THEN
                 IF Len(s) >= 2 /\ s[2] = RB THEN Lit(RB, SubSeqFrom(s, 3))
                 ELSE Err("ValueError")
             ELSE Lit(h, Tail(s))

-----------------------------------------------------------------------------
(* Addressable nodes *)

Root(model, slot) == [cls |-> "Instrument", model |-> model, slot |-> slot]

\* a node with an integer identity; id is the text format() renders for it
IntNode(cls, parent, id) ==
    [cls |-> cls, parent |-> parent, id |-> ToString(id), num |-> id]

\* a node with a string identity
StrNode(cls, parent, id) ==
    [cls |-> cls, parent |-> parent, id |-> id, num |-> 0]

GroupNode(cls, parent) == [cls |-> cls, parent |-> parent]

IsRoot(n) == n.cls = "Instrument"

IdStr(n) == n.id

ScopeChannelClasses == {"ScopeChannel", "MathChannel", "MemoryChannel"}

CommandGroupClasses == {"Acquisition", "Trigger", "Display", "Measurement", "Math"}

ChannelClasses == {"VoltageChannel", "Chroma63600Channel"} \cup ScopeChannelClasses

\* class attribute channel_type of the BaseScopeChannel subclasses
channel_type(cls) ==
    CASE cls = "ScopeChannel" -> "CH"
      [] cls = "MathChannel" -> "MATH"
      [] cls = "MemoryChannel" -> "REF"
      [] OTHER -> "CH"

\* class attribute placeholder of SubSystem
placeholder == "ch"

placeholder_id == "ch"

placeholder_channel_type == "ch_type"

\* as str.replace(token, id, 1) would: only the first occurrence is replaced
SubSystem_insert_id_first(n, command) ==
    LET fields == {i \in 1..(Len(command) - 2) :
                      command[i] = LB /\ command[i + 1] = placeholder /\ command[i + 2] = RB}
        i == CHOOSE x \in fields : \A y \in fields : x <= y
    IN  IF fields = {} THEN Ok(command)
        ELSE Ok(SubSeq(command, 1, i - 1) \o <<IdStr(n)>> \o SubSeqFrom(command, i + 3))

\* self.placeholder: the class attribute, or the one a subclass sets
Placeholder(n) == IF "ph" \in DOMAIN n THEN n.ph ELSE placeholder

SubSystem_insert_id(n, command) ==
    FormatMap(command, (Placeholder(n) :> IdStr(n)))

\* the inherited single-placeholder rule, without the channel type
BaseScopeChannel_insert_id_ch_only(n, command) ==
    FormatMap(command, (placeholder_id :> IdStr(n)))

BaseScopeChannel_insert_id(n, command) ==
    FormatMap(command, (placeholder_id :> IdStr(n))
                        @@ (placeholder_channel_type :> channel_type(n.cls)))

insert_id(n, command) ==
    IF n.cls \in ScopeChannelClasses
    THEN BaseScopeChannel_insert_id(n, command)
    ELSE SubSystem_insert_id(n, command)

-----------------------------------------------------------------------------
(* Transport events and node I/O *)

W(s) == [d |-> "w", s |-> s]
WB(s) == [d |-> "wb", s |-> s]
R(s) == [d |-> "r", s |-> s]

\* Instrument.write: hands the command to the adapter
Instrument_write(command) == [ok |-> TRUE, ev |-> <<W(Join(command))>>, err |-> "none"]

Instrument_write_binary_values(command) ==
    [ok |-> TRUE, ev |-> <<WB(Join(command))>>, err |-> "none"]

Failed(e) == [ok |-> FALSE, ev |-> <<>>, err |-> e]

\* the command a node hands to its parent
\* the command is substituted again on its way up
SubSystem_write_twice(n, command) ==
    LET r == insert_id(n, command)
    IN  IF r.ok THEN insert_id(n, r.out) ELSE r

SubSystem_write(n, command) == insert_id(n, command)

\* the command group substitutes its own placeholder as a channel does
CommandGroupSubSystem_write_subst(n, command) ==
    FormatMap(command, ("subsys" :> n.cls))

CommandGroupSubSystem_write(n, command) == Ok(command)

SubSystem_write_binary_values(n, command) == insert_id(n, command)

CommandGroupSubSystem_write_binary_values(n, command) == Ok(command)

Forward(n, command) ==
    IF n.cls \in CommandGroupClasses
    THEN CommandGroupSubSystem_write(n, command)
    ELSE SubSystem_write(n, command)

ForwardBinary(n, command) ==
    IF n.cls \in CommandGroupClasses
    THEN CommandGroupSubSystem_write_binary_values(n, command)
    ELSE SubSystem_write_binary_values(n, command)

\* the node transmits the command and its parent transmits it again
write_twice(n, command) ==
    IF IsRoot(n) THEN Instrument_write(command)
    ELSE LET f == Forward(n, command)
         IN  IF f.ok
             THEN [ok |-> TRUE,
                   ev |-> Instrument_write(f.out).ev \o Instrument_write(f.out).ev,
                   err |-> "none"]
             ELSE Failed(f.err)

RECURSIVE write(_, _)
write(n, command) ==
    IF IsRoot(n) THEN Instrument_write(command)
    ELSE LET f == Forward(n, command)
         IN  IF f.ok THEN write(n.parent, f.out) ELSE Failed(f.err)

RECURSIVE write_binary_values(_, _)
write_binary_values(n, command) ==
    IF IsRoot(n) THEN Instrument_write_binary_values(command)
    ELSE LET f == ForwardBinary(n, command)
         IN  IF f.ok THEN write_binary_values(n.parent, f.out) ELSE Failed(f.err)

RECURSIVE RootOf(_)
RootOf(n) == IF IsRoot(n) THEN n ELSE RootOf(n.parent)

-----------------------------------------------------------------------------
(* Python values: numbers, strings and booleans, compared as Python does *)

Num(n) == [k |-> "num", n |-> n, s |-> ""]
Str(s) == [k |-> "str", n |-> 0, s |-> s]
Bool(b) == [k |-> "bool", n |-> IF b THEN 1 ELSE 0, s |-> ""]
\* the float n.0
Float(n) == [k |-> "float", n |-> n, s |-> ""]

\* a float with a fractional part: n + f/Scale, 0 < f < Scale, n >= 0
Scale == 10000

Dec(n, f) == [k |-> "float", n |-> n, s |-> "", f |-> f]

Fraction(v) == IF "f" \in DOMAIN v THEN v.f ELSE 0

\* the value counted in units of 1/Scale
Micro(v) == v.n * Scale + Fraction(v)

IsNumber(v) == v.k \in {"num", "bool", "float"}

\* Python ==: True == 1 and False == 0, a string equals only a string
PyEq(a, b) ==
    \/ IsNumber(a) /\ IsNumber(b) /\ Micro(a) = Micro(b)
    \/ a.k = "str" /\ b.k = "str" /\ a.s = b.s

\* list.index / first matching dict key: position of the first equal element, 0 if none
IndexOf(seq, v) ==
    IF \E i \in 1..Len(seq) : PyEq(seq[i], v)
    THEN CHOOSE i \in 1..Len(seq) :
             PyEq(seq[i], v) /\ \A j \in 1..(i - 1) : ~PyEq(seq[j], v)
    ELSE 0

\* str(v)
PyStr(v) ==
    CASE v.k = "str" -> v.s
      [] v.k = "num" -> ToString(v.n)
      [] v.k = "float" -> ToString(v.n) \o ".0"
      [] v.k = "bool" -> IF v.n = 1 THEN "True" ELSE "False"

-----------------------------------------------------------------------------
(* values.py: predefined value maps *)

\* a dict is a pair of parallel sequences: its keys and their values
Dict(keys, vals) == [kind |-> "dict", keys |-> keys, vals |-> vals]
List(elems) == [kind |-> "list", keys |-> elems, vals |-> <<>>]
NoValues == [kind |-> "none", keys |-> <<>>, vals |-> <<>>]

BINARY == List(<<Num(0), Num(1)>>)

BOOLEAN_TO_INT == Dict(<<Bool(TRUE), Bool(FALSE)>>, <<Num(1), Num(0)>>)

BOOLEAN_TO_STR == Dict(<<Bool(TRUE), Bool(FALSE)>>, <<Str("True"), Str("FALSE")>>)

\* both logical values carry the same token
BOOLEAN_TO_ON_OFF_same == Dict(<<Bool(TRUE), Bool(FALSE)>>, <<Str("ON"), Str("ON")>>)

BOOLEAN_TO_ON_OFF == Dict(<<Bool(TRUE), Bool(FALSE)>>, <<Str("ON"), Str("OFF")>>)

\* inline maps of the drivers
INLINE_ON_OFF == Dict(<<Bool(TRUE), Bool(FALSE)>>, <<Str("ON"), Str("OFF")>>)

INLINE_1_0 == Dict(<<Bool(TRUE), Bool(FALSE)>>, <<Num(1), Num(0)>>)

-----------------------------------------------------------------------------
(* Property descriptors *)

None == [has |-> FALSE, t |-> <<>>]
Cmd(t) == [has |-> TRUE, t |-> t]

Descriptor(get, set, validator, values, map_values, dynamic) ==
    [get_command |-> get, set_command |-> set, validator |-> validator,
     values |-> values, map_values |-> map_values, dynamic |-> dynamic]

control(get, set, validator, values, map_values, dynamic) ==
    Descriptor(Cmd(get), Cmd(set), validator, values, map_values, dynamic)

measurement(get, values, map_values) ==
    Descriptor(Cmd(get), None, "none", values, map_values, FALSE)

setting(set, validator, values, map_values) ==
    Descriptor(None, Cmd(set), validator, values, map_values, FALSE)

Range(lo, hi) == List(<<Num(lo), Num(hi)>>)

-----------------------------------------------------------------------------
(* Driver property tables *)

Ch == <<LB, "ch", RB>>
ChTypeCh == <<LB, "ch_type", RB, LB, "ch", RB>>

Undeclared == Descriptor(None, None, "none", NoValues, FALSE, FALSE)

VoltageChannel(name) ==
    CASE name = "voltage_setpoint" ->
             control(<<"VOLT? (@">> \o Ch \o <<")">>,
                     <<"VOLT ", "%g", ", (@">> \o Ch \o <<")">>,
                     "strict_range", Range(0, 1), FALSE, TRUE)
      [] name = "current_limit" ->
             control(<<"CURR? (@">> \o Ch \o <<")">>,
                     <<"CURR ", "%g", ", (@">> \o Ch \o <<")">>,
                     "strict_range", Range(0, 1), FALSE, TRUE)
      [] name = "voltage_measure" ->
             measurement(<<"MEASure:VOLTage? (@">> \o Ch \o <<")">>, NoValues, FALSE)
      [] name = "current_measure" ->
             measurement(<<"MEAS:CURRent? (@">> \o Ch \o <<")">>, NoValues, FALSE)
      [] name = "output_enabled" ->
             control(<<"OUTPut? (@">> \o Ch \o <<")">>,
                     <<"OUTPut ", "%d", ", (@">> \o Ch \o <<")">>,
                     "strict_discrete_set", INLINE_1_0, TRUE, FALSE)
      [] OTHER -> Undeclared

\* the control declared without its validator
PLZ1205W_current_range_unvalidated ==
    control(<<"CURR:RANG?">>, <<"CURR:RANG ", "%s">>, "none",
            List(<<Str("LOW"), Str("MED"), Str("HIGH")>>), FALSE, FALSE)

PLZ1205W_current_range ==
    control(<<"CURR:RANG?">>, <<"CURR:RANG ", "%s">>, "strict_discrete_set",
            List(<<Str("LOW"), Str("MED"), Str("HIGH")>>), FALSE, FALSE)

PLZ1205W(name) ==
    CASE name \in {"load_setpoint", "current_setpoint"} ->
             control(<<"CURR?">>, <<"CURR ", "%g">>,
                     "strict_range", Range(0, 240), FALSE, TRUE)
      [] name = "current_range" -> PLZ1205W_current_range
      [] name = "volt_range" ->
             control(<<"VOLT:RANG?">>, <<"VOLT:RANG ", "%s">>, "strict_discrete_set",
                     List(<<Str("LOW"), Str("HIGH")>>), FALSE, FALSE)
      [] name = "voltage_measure" -> measurement(<<"MEASure:VOLTage:DC?">>, NoValues, FALSE)
      [] name = "current_measure" -> measurement(<<"MEAS:CURRent:DC?">>, NoValues, FALSE)
      [] name = "power_measure" -> measurement(<<"MEAS:POW:DC?">>, NoValues, FALSE)
      [] name = "output_enabled" ->
             control(<<"OUTP?">>, <<"OUTP ", "%d">>,
                     "strict_discrete_set", BOOLEAN_TO_INT, TRUE, FALSE)
      [] name = "abort" -> setting(<<"ABOR">>, "none", NoValues, FALSE)
      [] OTHER -> Undeclared

PLZ334WL(name) ==
    CASE name = "current_setpoint" ->
             control(<<"CURR?">>, <<"CURR ", "%g">>,
                     "strict_range", Range(0, 240), FALSE, TRUE)
      [] name = "voltage_measure" -> measurement(<<"MEASure:VOLTage:DC?">>, NoValues, FALSE)
      [] name = "current_measure" -> measurement(<<"MEAS:CURRent:DC?">>, NoValues, FALSE)
      [] name = "power_measure" -> measurement(<<"MEAS:CURRent:DC?">>, NoValues, FALSE)
      [] name = "output_enabled" ->
             control(<<"OUTP:STAT ?">>, <<"OUTP:STAT ", "%s">>,
                     "strict_discrete_set", INLINE_ON_OFF, TRUE, FALSE)
      [] OTHER -> Undeclared

PWR1201L(name) ==
    CASE name = "voltage_setpoint" ->
             control(<<"VOLT?">>, <<"VOLT ", "%g">>,
                     "strict_range", Range(0, 40), FALSE, TRUE)
      [] name = "current_limit" ->
             control(<<"CURR?">>, <<"CURR ", "%g">>,
                     "strict_range", Range(0, 140), FALSE, TRUE)
      [] name = "voltage" -> measurement(<<"MEASure:VOLTage?">>, NoValues, FALSE)
      [] name = "current" -> measurement(<<"MEAS:CURRent?">>, NoValues, FALSE)
      [] name = "output_enabled" ->
             control(<<"OUTPut?">>, <<"OUTPut ", "%d">>,
                     "strict_discrete_set", INLINE_1_0, TRUE, FALSE)
      [] OTHER -> Undeclared

\* the setting declared as a control, with a query
Chroma63600Channel_mode_readable ==
    control(<<"MODE?">>, <<"MODE ", "%s">>, "strict_discrete_set",
            List(<<Str("CC"), Str("CV"), Str("CW"), Str("CR")>>), FALSE, FALSE)

Chroma63600Channel_mode ==
    setting(<<"MODE ", "%s">>, "strict_discrete_set",
            List(<<Str("CC"), Str("CV"), Str("CW"), Str("CR")>>), FALSE)

Chroma63600Channel(name) ==
    CASE name = "voltage" -> measurement(<<"MEAS:VOLT?">>, NoValues, FALSE)
      [] name = "current" -> measurement(<<"MEAS:CURR?">>, NoValues, FALSE)
      [] name = "power" -> measurement(<<"MEAS:POWE?">>, NoValues, FALSE)
      [] name = "resistance" -> measurement(<<"MEAS:RES?">>, NoValues, FALSE)
      [] name = "mode" -> Chroma63600Channel_mode
      [] name = "current_setpoint" ->
             control(<<"CURR?">>, <<"CURR ", "%g">>,
                     "truncated_range", Range(0, 100), FALSE, FALSE)
      [] name = "voltage_setpoint" ->
             control(<<"VOLT?">>, <<"VOLT ", "%g">>,
                     "truncated_range", Range(0, 500), FALSE, FALSE)
      [] name = "power_setpoint" ->
             control(<<"POWE?">>, <<"POWE ", "%g">>,
                     "truncated_range", Range(0, 1000), FALSE, FALSE)
      [] name = "load_enabled" ->
             control(<<"LOAD?">>, <<"LOAD ", "%d">>,
                     "strict_discrete_set", List(<<Num(0), Num(1)>>), TRUE, FALSE)
      [] OTHER -> Undeclared

Chroma63600(name) ==
    CASE name = "idn" -> measurement(<<"*IDN?">>, NoValues, FALSE)
      [] name = "error" -> measurement(<<"SYST:ERR?">>, NoValues, FALSE)
      [] OTHER -> Undeclared

BaseScopeChannel(name) ==
    CASE name = "label_name" ->
             control(ChTypeCh \o <<":LABel:NAMe?">>,
                     ChTypeCh \o <<":LABel:NAMe \"", "%s", "\"">>,
                     "none", NoValues, FALSE, FALSE)
      [] name = "label_x" ->
             control(ChTypeCh \o <<":LABel:XPOS?">>, ChTypeCh \o <<":LABel:XPOS ", "%g">>,
                     "strict_range", Range(0, 1720), FALSE, FALSE)
      [] name = "label_y" ->
             control(ChTypeCh \o <<":LABel:YPOS?">>, ChTypeCh \o <<":LABel:YPOS ", "%g">>,
                     "strict_range", Range(-1200, 1200), FALSE, FALSE)
      [] OTHER -> Undeclared

ScopeChannel(name) ==
    CASE name = "enable" ->
             control(<<"SELECT:CH">> \o Ch \o <<"?">>, <<"SELECT:CH">> \o Ch \o <<" ", "%d">>,
                     "strict_discrete_set", BINARY, TRUE, FALSE)
      [] name = "clipping" ->
             measurement(<<"CH">> \o Ch \o <<":CLIPping?">>, BOOLEAN_TO_INT, TRUE)
      [] name = "coupling" ->
             control(<<"CH">> \o Ch \o <<":COUPling?">>, <<"CH">> \o Ch \o <<":COUPling ", "%s">>,
                     "strict_discrete_set", List(<<Str("AC"), Str("DCDCR")>>), FALSE, FALSE)
      [] name = "invert" ->
             control(<<"CH">> \o Ch \o <<":INVert?">>, <<"CH">> \o Ch \o <<":INVert ", "%s">>,
                     "strict_discrete_set", BOOLEAN_TO_ON_OFF, TRUE, FALSE)
      [] name = "offset" ->
             control(<<"CH">> \o Ch \o <<":OFFSet?">>, <<"CH">> \o Ch \o <<":OFFSet ", "%g">>,
                     "none", NoValues, FALSE, FALSE)
      [] name = "position" ->
             control(<<"CH">> \o Ch \o <<":POSition?">>, <<"CH">> \o Ch \o <<":POSition ", "%g">>,
                     "none", NoValues, FALSE, FALSE)
      [] OTHER -> BaseScopeChannel(name)

MathChannel(name) ==
    CASE name = "function" ->
             control(<<"MATH">> \o Ch \o <<":DEFinition?">>,
                     <<"MATH">> \o Ch \o <<":DEFinition ", "%s">>, "strict_discrete_set",
                     List(<<Str("ADD"), Str("SUB"), Str("MULT"), Str("DIV"), Str("FFT")>>),
                     FALSE, FALSE)
      [] OTHER -> BaseScopeChannel(name)

MemoryChannel(name) == BaseScopeChannel(name)

Acquisition(name) ==
    CASE name = "state" ->
             \* declared twice in the class body: the later control is the attribute
             control(<<"ACQuire:STATE?">>, <<"ACQuire:STATE ", "%s">>,
                     "strict_discrete_set",
                     List(<<Str("RUN"), Str("STOP"), Str("ON"), Str("OFF"), Str("1"),
                            Str("0"), Num(1), Num(0)>>), FALSE, FALSE)
      [] name = "run" -> setting(<<"ACQuire:STATE RUN">>, "none", NoValues, FALSE)
      [] name = "stop" -> setting(<<"ACQuire:STATE STOP">>, "none", NoValues, FALSE)
      [] name = "fastacq_palette" ->
             control(<<"ACQuire:FASTAcq:PALEtte?">>, <<"ACQuire:FASTAcq:PALEtte ", "%s">>,
                     "strict_discrete_set",
                     List(<<Str("NORMAL"), Str("ANALOG"), Str("TEMPERATURE"),
                            Str("SPECTRAL"), Str("INVERTED")>>), FALSE, FALSE)
      [] name = "fastacq_state" ->
             control(<<"ACQuire:FASTAcq:STATE?">>, <<"ACQuire:FASTAcq:STATE ", "%d">>,
                     "strict_discrete_set", BINARY, TRUE, FALSE)
      [] name = "magnivu" ->
             control(<<"ACQuire:MAGnivu?">>, <<"ACQuire:MAGnivu ", "%s">>,
                     "strict_discrete_set", BOOLEAN_TO_ON_OFF, TRUE, FALSE)
      [] OTHER -> Undeclared

\* tektronix_common_base_trigger.py: the action settings and a sample of the
\* controls and measurements of the trigger command group
Trigger(name) ==
    CASE name = "force" -> setting(<<"TRIGger:FORCe">>, "none", NoValues, FALSE)
      [] name = "a_level" ->
             control(<<"TRIGger:A:LEVel?">>, <<"TRIGger:A:LEVel ", "%g">>,
                     "none", NoValues, FALSE, FALSE)
      [] name = "a_mode" ->
             control(<<"TRIGger:A:MODe?">>, <<"TRIGger:A:MODe ", "%s">>,
                     "strict_discrete_set",
                     List(<<Str("AUTO"), Str("NORMAL"), Str("NORM")>>), FALSE, FALSE)
      [] name = "state" -> measurement(<<"TRIGger:STATE?">>, NoValues, FALSE)
      [] name = "set_level" -> setting(<<"TRIGger:A SETLevel">>, "none", NoValues, FALSE)
      [] name = "b_set_level" -> setting(<<"TRIGger:B SETLevel">>, "none", NoValues, FALSE)
      [] name = "b_reset" -> setting(<<"TRIGger:B:RESET">>, "none", NoValues, FALSE)
      [] OTHER -> Undeclared

\* tektronix_common_base_display.py
Display(name) ==
    CASE name = "intensity" -> measurement(<<"DISplay:INTENSITy?">>, NoValues, FALSE)
      [] name = "backlight" ->
             control(<<"DISplay:INTENSITy:BACKLight?">>,
                     <<"DISplay:INTENSITy:BACKLight ", "%g">>,
                     "strict_range", Range(0, 100), FALSE, FALSE)
      [] name = "persistence_reset" ->
             setting(<<"DISplay:PERSistence:RESET">>, "none", NoValues, FALSE)
      [] name = "waveform" ->
             control(<<"DISplay:WAVEform?">>, <<"DISplay:WAVEform ", "%s">>,
                     "strict_discrete_set", BOOLEAN_TO_ON_OFF, TRUE, FALSE)
      [] OTHER -> Undeclared

\* tektronix_common_base_measurement.py
Measurement(name) ==
    CASE name = "list_all" -> measurement(<<"MEASUrement:LIST?">>, NoValues, FALSE)
      [] name = "delete_all" -> setting(<<"MEASUrement:DELete ALL">>, "none", NoValues, FALSE)
      [] name = "gating" ->
             control(<<"MEASUrement:GATing?">>, <<"MEASUrement:GATing ", "%s">>,
                     "strict_discrete_set",
                     List(<<Str("OFF"), Str("SCREEN"), Str("SCRE"), Str("CURSOR"),
                            Str("CURS"), Str("LOGIC"), Str("LOG"), Str("SEARCH"),
                            Str("SEAR"), Str("TIME"), Str("TIM")>>), FALSE, FALSE)
      [] name = "statistics_mode" ->
             control(<<"MEASUrement:STATIstics:MODe?">>,
                     <<"MEASUrement:STATIstics:MODe ", "%s">>,
                     "strict_discrete_set", List(<<Str("OFF"), Str("ALL")>>), FALSE, FALSE)
      [] name = "statistics_weighting" ->
             control(<<"MEASUrement:STATIstics:WEIghting?">>,
                     <<"MEASUrement:STATIstics:WEIghting ", "%d">>,
                     "strict_range", Range(2, 1000), FALSE, FALSE)
      [] name = "statistics_clear" ->
             setting(<<"MEASUrement:STATIstics CLEar">>, "none", NoValues, FALSE)
      [] OTHER -> Undeclared

\* the field the MSO58 channel classes write into their templates
SelfNumber == <<LB, "self.number", RB>>

\* tektronix/MSO58.py: channel classes deriving from Channel directly.  The
\* range [1e-3, 10] of scale admits, among whole numbers, exactly 1..10.
MSO58_ScopeChannel(name) ==
    CASE name = "enable" ->
             control(<<"SELECT:CH">> \o SelfNumber \o <<"?">>,
                     <<"SELECT:CH">> \o SelfNumber \o <<" ", "%d">>,
                     "strict_discrete_set", BINARY, TRUE, FALSE)
      [] name = "scale" ->
             control(<<"CH">> \o SelfNumber \o <<":SCALE?">>,
                     <<"CH">> \o SelfNumber \o <<":SCALE ", "%g">>,
                     "strict_range", Range(1, 10), FALSE, FALSE)
      [] name = "position" ->
             control(<<"CH">> \o SelfNumber \o <<":POSition?">>,
                     <<"CH">> \o SelfNumber \o <<":POSition ", "%g">>,
                     "none", NoValues, FALSE, FALSE)
      [] OTHER -> Undeclared

MSO58_MathChannel(name) ==
    CASE name = "function" ->
             control(<<"MATH">> \o SelfNumber \o <<":DEFinition?">>,
                     <<"MATH">> \o SelfNumber \o <<":DEFinition ", "%s">>,
                     "strict_discrete_set",
                     List(<<Str("ADD"), Str("SUB"), Str("MULT"), Str("DIV"), Str("FFT")>>),
                     FALSE, FALSE)
      [] OTHER -> Undeclared

MSO58_MemoryChannel(name) ==
    CASE name = "waveform_data" ->
             measurement(<<"DATA:SOURCE MEM">> \o SelfNumber \o <<";:CURVe?">>,
                         NoValues, FALSE)
      [] OTHER -> Undeclared

\* the class a node's properties are looked up in
OwnerClass(n) == IF IsRoot(n) THEN n.model ELSE n.cls

PropertyOf(n, name) ==
    LET c == OwnerClass(n)
    IN  CASE c = "VoltageChannel" -> VoltageChannel(name)
          [] c = "PLZ1205W" -> PLZ1205W(name)
          [] c = "PLZ334WL" -> PLZ334WL(name)
          [] c = "PWR1201L" -> PWR1201L(name)
          [] c = "Chroma63600Channel" -> Chroma63600Channel(name)
          [] c = "Chroma63600" -> Chroma63600(name)
          [] c = "ScopeChannel" -> ScopeChannel(name)
          [] c = "MathChannel" -> MathChannel(name)
          [] c = "MemoryChannel" -> MemoryChannel(name)
          [] c = "Acquisition" -> Acquisition(name)
          [] c = "Trigger" -> Trigger(name)
          [] c = "Display" -> Display(name)
          [] c = "Measurement" -> Measurement(name)
          [] c = "MSO58_ScopeChannel" -> MSO58_ScopeChannel(name)
          [] c = "MSO58_MathChannel" -> MSO58_MathChannel(name)
          [] c = "MSO58_MemoryChannel" -> MSO58_MemoryChannel(name)
          [] OTHER -> Undeclared

PropertyNames(n) ==
    LET c == OwnerClass(n)
        base == {"label_name", "label_x", "label_y"}
    IN  CASE c = "VoltageChannel" ->
                 {"voltage_setpoint", "current_limit", "voltage_measure",
                  "current_measure", "output_enabled"}
          [] c = "PLZ1205W" ->
                 {"current_setpoint", "current_range", "volt_range", "voltage_measure",
                  "current_measure", "power_measure", "output_enabled", "abort"}
          [] c = "PLZ334WL" ->
                 {"current_setpoint", "voltage_measure", "current_measure",
                  "power_measure", "output_enabled"}
          [] c = "PWR1201L" ->
                 {"voltage_setpoint", "current_limit", "voltage", "current", "output_enabled"}
          [] c = "Chroma63600Channel" ->
                 {"voltage", "current", "power", "resistance", "mode", "current_setpoint",
                  "voltage_setpoint", "power_setpoint", "load_enabled"}
          [] c = "Chroma63600" -> {"idn", "error"}
          [] c = "ScopeChannel" ->
                 base \cup {"enable", "clipping", "coupling", "invert", "offset", "position"}
          [] c = "MathChannel" -> base \cup {"function"}
          [] c = "MemoryChannel" -> base
          [] c = "Acquisition" ->
                 {"state", "fastacq_palette", "fastacq_state", "magnivu", "run", "stop"}
          [] c = "Trigger" ->
                 {"force", "a_level", "a_mode", "state", "set_level", "b_set_level",
                  "b_reset"}
          [] c = "Display" -> {"intensity", "backlight", "persistence_reset", "waveform"}
          [] c = "Measurement" ->
                 {"list_all", "delete_all", "statistics_mode", "statistics_weighting",
                  "statistics_clear"}
          [] c = "MSO58_ScopeChannel" -> {"enable", "scale", "position"}
          [] c = "MSO58_MathChannel" -> {"function"}
          [] c = "MSO58_MemoryChannel" -> {"waveform_data"}
          [] OTHER -> {}

-----------------------------------------------------------------------------
(* Validators *)

Valid(v) == [ok |-> TRUE, v |-> v, err |-> "none"]
Invalid(e) == [ok |-> FALSE, v |-> Num(0), err |-> e]

Min(a, b) == IF a <= b THEN a ELSE b
Max(a, b) == IF a >= b THEN a ELSE b

Lo(values) == Min(values.keys[1].n, values.keys[2].n)
Hi(values) == Max(values.keys[1].n, values.keys[2].n)

\* the upper bound taken as exclusive
strict_range_exclusive(value, values) ==
    IF Lo(values) <= value.n /\ value.n < Hi(values)
    THEN Valid(value)
    ELSE Invalid("RangeError")

strict_range(value, values) ==
    IF Lo(values) * Scale <= Micro(value) /\ Micro(value) <= Hi(values) * Scale
    THEN Valid(value)
    ELSE Invalid("RangeError")

truncated_range(value, values) ==
    IF Lo(values) <= value.n /\ value.n <= Hi(values) THEN Valid(value)
    ELSE IF value.n > Hi(values) THEN Valid(Num(Hi(values)))
    ELSE Valid(Num(Lo(values)))

strict_discrete_set(value, values) ==
    IF IndexOf(values.keys, value) # 0
    THEN Valid(value)
    ELSE Invalid("DiscreteSetError")

Validate(validator, value, values) ==
    CASE validator = "strict_range" -> strict_range(value, values)
      [] validator = "truncated_range" -> truncated_range(value, values)
      [] validator = "strict_discrete_set" -> strict_discrete_set(value, values)
      [] OTHER -> Valid(value)

-----------------------------------------------------------------------------
(* Value maps *)

\* logical value -> wire value (list: its index, dict: the value under its key)
to_wire(value, values) ==
    CASE values.kind = "list" /\ IndexOf(values.keys, value) # 0 ->
             Valid(Num(IndexOf(values.keys, value) - 1))
      [] values.kind = "dict" /\ IndexOf(values.keys, value) # 0 ->
             Valid(values.vals[IndexOf(values.keys, value)])
      [] OTHER -> Invalid("MapError")

\* wire value -> logical value (list: the element at that index, dict: the first
\* key that carries the value)
from_wire(token, values) ==
    CASE values.kind = "list" /\ IsNumber(token)
             /\ token.n >= 0 /\ token.n < Len(values.keys) ->
             Valid(values.keys[token.n + 1])
      [] values.kind = "dict" /\ IndexOf(values.vals, token) # 0 ->
             Valid(values.keys[IndexOf(values.vals, token)])
      [] OTHER -> Invalid("MapError")

-----------------------------------------------------------------------------
(* Command formatter *)

Slots == {"%g", "%d", "%s"}

SlotCount(t) == Cardinality({i \in 1..Len(t) : t[i] \in Slots})

RECURSIVE IntDigits(_)
IntDigits(n) == IF n < 10 THEN 1 ELSE 1 + IntDigits(n \div 10)

RECURSIVE Pow10(_)
Pow10(e) == IF e = 0 THEN 1 ELSE 10 * Pow10(e - 1)

\* %g keeps six significant digits: a value of m/Scale rounded to the
\* decimals that are left after its integer digits (values below 100000,
\* no tie among the inputs)
G6(m) ==
    LET n == m \div Scale
        decimals == IF n = 0 THEN 4 ELSE Min(4, 6 - IntDigits(n))
        unit == Pow10(4 - decimals)
    IN  ((m + unit \div 2) \div unit) * unit

\* the digits of f in a field of the given width
RECURSIVE Padded(_, _)
Padded(f, width) ==
    IF width = 0 THEN "" ELSE Padded(f \div 10, width - 1) \o ToString(f % 10)

\* the same with the trailing zeros dropped (f > 0)
RECURSIVE Digits(_, _)
Digits(f, width) ==
    IF f % 10 = 0 THEN Digits(f \div 10, width - 1) ELSE Padded(f, width)

\* the shortest decimal text of m/Scale, as %g and repr print it
DecStr(m) ==
    IF m % Scale = 0 THEN ToString(m \div Scale)
    ELSE ToString(m \div Scale) \o "." \o Digits(m % Scale, 4)

\* every slot rendered as str(v) renders it
FormatValue_str(slot, v) == Valid(Str(PyStr(v)))

\* printf-style rendering of one value
FormatValue(slot, v) ==
    CASE slot = "%s" -> Valid(Str(PyStr(v)))
      [] slot = "%g" /\ IsNumber(v) /\ Fraction(v) # 0 -> Valid(Str(DecStr(G6(Micro(v)))))
      [] slot \in {"%g", "%d"} /\ IsNumber(v) -> Valid(Str(ToString(v.n)))
      [] OTHER -> Invalid("TemplateError")

\* the characters of a text: each brace on its own, the text between braces
\* in one piece (done: the pieces so far, run: the piece being read)
RECURSIVE TokensFrom(_, _, _)
TokensFrom(s, done, run) ==
    LET closed == IF run = "" THEN done ELSE Append(done, run)
    IN  IF Len(s) = 0 THEN closed
        ELSE IF SubSeq(s, 1, 1) \in {LB, RB}
        THEN TokensFrom(SubSeq(s, 2, Len(s)), Append(closed, SubSeq(s, 1, 1)), "")
        ELSE TokensFrom(SubSeq(s, 2, Len(s)), done, run \o SubSeq(s, 1, 1))

Tokens(s) == TokensFrom(s, <<>>, "")

\* template % value: fills the single value slot; the rendered value becomes
\* part of the command text, braces and all
PercentFormat(t, v) ==
    IF SlotCount(t) # 1 THEN Err("TemplateError")
    ELSE LET i == CHOOSE j \in 1..Len(t) : t[j] \in Slots
             f == FormatValue(t[i], v)
         IN  IF f.ok
             THEN Ok(SubSeq(t, 1, i - 1) \o Tokens(f.v.s) \o SubSeq(t, i + 1, Len(t)))
             ELSE Err(f.err)

\* response parsing: a numeric response becomes a number, anything else stays text
Parse(r) ==
    CASE r = "0" -> Float(0)
      [] r = "1" -> Float(1)
      [] r = "2" -> Float(2)
      [] r = "10.000000E+00" -> Float(10)
      [] OTHER -> Str(r)

Responses == {"0", "1", "2", "10.000000E+00", "ON", "OFF", "MED", "{ch}"}

-----------------------------------------------------------------------------
(* Node reads and the error-check policy *)

\* the node substitutes its identity in the response as it does in commands
SubSystem_read_subst(n, response) == IF response = "{ch}" THEN IdStr(n) ELSE response

\* the response a node returns for the response its parent returned
SubSystem_read(n, response) == response

CommandGroupSubSystem_read(n, response) == response

RECURSIVE read(_, _)
read(n, response) ==
    IF IsRoot(n) THEN response
    ELSE IF n.cls \in CommandGroupClasses
         THEN CommandGroupSubSystem_read(n, read(n.parent, response))
         ELSE SubSystem_read(n, read(n.parent, response))

ErrorQuery == "SYST:ERR?"
NoError == "0,No error"
AnError == "-113,Undefined header"

ErrorQueueCap == 5

\* the instrument's error queue holds k entries: one query per entry and one
\* for the sentinel, at most ErrorQueueCap queries in all
check_errors(k) ==
    LET queries == Min(k + 1, ErrorQueueCap)
        Answer(i) == IF i <= k THEN AnError ELSE NoError
    IN  [ok |-> k < ErrorQueueCap,
         ev |-> [j \in 1..(2 * queries) |->
                    IF j % 2 = 1 THEN W(ErrorQuery) ELSE R(Answer(j \div 2))],
         err |-> IF k < ErrorQueueCap THEN "none" ELSE "ErrorQueueOverflowError"]

\* a node hands the check to its parent, the root Instrument performs it
RECURSIVE check_set_errors(_, _)
check_set_errors(n, k) ==
    IF IsRoot(n) THEN check_errors(k) ELSE check_set_errors(n.parent, k)

RECURSIVE check_get_errors(_, _)
check_get_errors(n, k) ==
    IF IsRoot(n) THEN check_errors(k) ELSE check_get_errors(n.parent, k)

-----------------------------------------------------------------------------
(* Property descriptor: the get/set protocol *)

Outcome(status, ev, value, token) ==
    [status |-> status, ev |-> ev, value |-> value, token |-> token]

NoVal == Num(0)

\* set: validate -> forward map -> render -> write -> optional error check
fset(n, p, values, value, check, k) ==
    IF ~p.set_command.has THEN Outcome("NotWritableError", <<>>, NoVal, NoVal)
    ELSE
    LET val == Validate(p.validator, value, values)
    IN  IF ~val.ok THEN Outcome(val.err, <<>>, NoVal, NoVal)
        ELSE
        LET mapped == IF p.map_values THEN to_wire(val.v, values) ELSE val
        IN  IF ~mapped.ok THEN Outcome(mapped.err, <<>>, NoVal, NoVal)
            ELSE
            LET cmd == PercentFormat(p.set_command.t, mapped.v)
            IN  IF ~cmd.ok THEN Outcome(cmd.err, <<>>, NoVal, NoVal)
                ELSE
                LET w == write(n, cmd.out)
                IN  IF ~w.ok THEN Outcome("TemplateError", <<>>, NoVal, NoVal)
                    ELSE IF ~check THEN Outcome("ok", w.ev, val.v, mapped.v)
                    ELSE LET c == check_set_errors(n, k)
                         IN  Outcome(IF c.ok THEN "ok" ELSE c.err,
                                     w.ev \o c.ev, val.v, mapped.v)

\* get: render -> write, read -> parse -> inverse map -> optional error check
fget(n, p, values, response, check, k) ==
    IF ~p.get_command.has THEN Outcome("NotReadableError", <<>>, NoVal, NoVal)
    ELSE
    LET w == write(n, p.get_command.t)
    IN  IF ~w.ok THEN Outcome("TemplateError", <<>>, NoVal, NoVal)
        ELSE
        LET raw == read(n, response)
            io == w.ev \o <<R(raw)>>
            parsed == Parse(raw)
            mapped == IF p.map_values THEN from_wire(parsed, values) ELSE Valid(parsed)
        IN  IF ~mapped.ok THEN Outcome(mapped.err, io, NoVal, parsed)
            ELSE IF ~check THEN Outcome("ok", io, mapped.v, parsed)
            ELSE LET c == check_get_errors(n, k)
                 IN  Outcome(IF c.ok THEN "ok" ELSE c.err, io \o c.ev, mapped.v, parsed)

-----------------------------------------------------------------------------
(* Instruments and their nodes *)

KeysightModels == {"KeysightE36311A", "E36312A"}

Slots_ == 1..MaxInst

KeysightChannels == 1..3

DynamicNames == {"voltage_setpoint", "current_limit"}

ShadowKeys == Slots_ \X KeysightChannels \X DynamicNames

\* the assignments of KeysightE36311A.__init__, in program order
KeysightE36311A_init ==
    << <<1, "voltage_setpoint", Range(0, 6)>>,  <<1, "current_limit", Range(0, 5)>>,
       <<2, "voltage_setpoint", Range(0, 25)>>, <<2, "current_limit", Range(0, 1)>>,
       <<3, "voltage_setpoint", Range(-25, 0)>>, <<3, "current_limit", Range(0, 1)>> >>

\* the E36311A assignments copied unchanged
E36312A_init_copied ==
    << <<1, "voltage_setpoint", Range(0, 6)>>,  <<1, "current_limit", Range(0, 5)>>,
       <<2, "voltage_setpoint", Range(0, 25)>>, <<2, "current_limit", Range(0, 1)>>,
       <<3, "voltage_setpoint", Range(-25, 0)>>, <<3, "current_limit", Range(0, 1)>> >>

\* the assignments of E36312A.__init__, in program order
E36312A_init ==
    << <<1, "voltage_setpoint", Range(0, 6)>>,  <<1, "current_limit", Range(0, 5)>>,
       <<2, "voltage_setpoint", Range(0, 25)>>, <<2, "current_limit", Range(0, 1)>>,
       <<3, "voltage_setpoint", Range(0, 25)>>, <<3, "current_limit", Range(0, 1)>> >>

InitAssignments(model) ==
    IF model = "KeysightE36311A" THEN KeysightE36311A_init ELSE E36312A_init

\* channel.<name>_values = values on one channel instance: stored in the
\* instance's own shadow entry, the class-level default is left alone
set_values(st, slot, ch, name, values) ==
    [shadow |-> [st.shadow EXCEPT ![<<slot, ch, name>>] = values], cls |-> st.cls]

RECURSIVE ApplyAssignments(_, _, _)
ApplyAssignments(st, slot, as) ==
    IF as = <<>> THEN st
    ELSE ApplyAssignments(set_values(st, slot, Head(as)[1], Head(as)[2], Head(as)[3]),
                          slot, Tail(as))

PLZ1205W_root == Root("PLZ1205W", 0)
PLZ334WL_root == Root("PLZ334WL", 0)
PWR1201L_root == Root("PWR1201L", 0)
Chroma63600_root == Root("Chroma63600", 0)
TektronixBaseScope_root == Root("TektronixBaseScope", 0)

ChromaIds == {"CHAN" \o ToString(i) : i \in 1..Min(MaxId, 5)}

ChromaNodes == {StrNode("Chroma63600Channel", Chroma63600_root, c) : c \in ChromaIds}

ScopeNodes ==
    {IntNode(c, TektronixBaseScope_root, i) : c \in ScopeChannelClasses, i \in 1..MaxId}

GroupNodes == {GroupNode("Acquisition", TektronixBaseScope_root)}

KeysightNodes(in) ==
    {IntNode("VoltageChannel", Root(in[slot], slot), c) :
        slot \in {x \in Slots_ : in[x] # "none"}, c \in KeysightChannels}

StaticNodes ==
    {PLZ1205W_root, PLZ334WL_root, PWR1201L_root, Chroma63600_root}
        \cup ChromaNodes \cup ScopeNodes \cup GroupNodes

Nodes(in) == StaticNodes \cup KeysightNodes(in)

MSO58_root == Root("MSO58", 0)

\* ScopeChannel.__init__ and its siblings: Channel(parent, f"CH{number}") and
\* self.number = number
MSO58Node(cls, prefix, number) ==
    [cls |-> cls, parent |-> MSO58_root, id |-> prefix \o ToString(number), num |-> number]

\* MSO58.__init__: the channel lists
MSO58Nodes ==
    {MSO58Node("MSO58_ScopeChannel", "CH", i) : i \in 1..MaxId}
        \cup {MSO58Node("MSO58_MathChannel", "MATH", i) : i \in 1..MaxId}
        \cup {MSO58Node("MSO58_MemoryChannel", "MEM", i) : i \in 1..MaxId}

\* the `values` a get or set of property `name` on node n works with: the
\* instance's shadow entry if it has one, else the class-level declaration
ResolveValues(n, name, sh, cls) ==
    LET p == PropertyOf(n, name)
    IN  IF n.cls = "VoltageChannel" /\ p.dynamic
        THEN LET key == <<n.parent.slot, n.num, name>>
             IN  IF sh[key].kind # "none" THEN sh[key] ELSE cls[name]
        ELSE p.values

-----------------------------------------------------------------------------
(* Inputs *)

BoundaryNums(values) ==
    IF values.kind = "list" /\ Len(values.keys) = 2
          /\ IsNumber(values.keys[1]) /\ IsNumber(values.keys[2])
    THEN {Lo(values) - 1, Lo(values), Hi(values), Hi(values) + 1}
    ELSE {}

InputTokens == {"LOW", "MED", "HIGH", "BOGUS", "CC", "AC", "DC", "ADD", "NORMAL", "ON"}

\* candidate values offered to a set of a property with the given validator
InputValues(validator, values) ==
    IF validator \in {"strict_range", "truncated_range"}
    THEN {Num(i) : i \in BoundaryNums(values) \cup {10}} \cup {Float(10)}
    ELSE {Num(i) : i \in 0..2} \cup {Bool(b) : b \in BOOLEAN} \cup {Str(t) : t \in InputTokens}

-----------------------------------------------------------------------------
(* Callers, locks and the instrument side of the transport *)

Callers == 1..MaxCallers

\* a response waiting on the line: the query it answers, its text, who asked
NoReply == [q |-> "", r |-> "", by |-> 0, at |-> ""]

IdleCaller ==
    [pc |-> "idle", kind |-> "none", node |-> PLZ1205W_root, name |-> "",
     value |-> NoVal, count |-> 0, entries |-> <<>>, given |-> <<>>,
     status |-> "none", sent |-> "", got |-> NoReply, seen |-> "", alone |-> TRUE,
     result |-> NoVal, prev |-> <<>>, queries |-> 0, faults |-> 0,
     at |-> PLZ1205W_root, hops |-> 0, runs |-> 0, ran |-> ""]

NoCallers == [c \in Callers |-> IdleCaller]

NoLock == [mode |-> "none", held |-> {}]

NoDevice == [errs |-> <<>>, out |-> <<>>, val |-> "0"]

-----------------------------------------------------------------------------
(* State machine *)

NoOp ==
    [kind |-> "none", node |-> PLZ1205W_root, name |-> "", value |-> NoVal,
     check |-> FALSE, k |-> 0, response |-> "", cmd |-> <<>>,
     status |-> "none", result |-> NoVal, token |-> NoVal, out |-> <<>>,
     pc |-> 0, auto |-> FALSE, limits |-> NoValues]

Init ==
    /\ insts = [s \in Slots_ |-> "none"]
    /\ shadow = [key \in ShadowKeys |-> NoValues]
    /\ clsValues = [name \in DynamicNames |-> VoltageChannel(name).values]
    /\ op = NoOp
    /\ wire = <<>>
    /\ callers = NoCallers /\ lock = NoLock /\ dev = NoDevice

\* the caller is between two calls
Idle == op.kind = "none"

\* the call returns to the caller, who may issue the next one
Return ==
    /\ ~Idle
    /\ op' = NoOp
    /\ wire' = <<>>
    /\ UNCHANGED <<insts, shadow, clsValues, callers, lock, dev>>

\* KeysightE36311A(adapter) / E36312A(adapter) constructed in a free slot
Construct(slot, model) ==
    /\ Idle
    /\ insts[slot] = "none"
    /\ LET st == ApplyAssignments([shadow |-> shadow, cls |-> clsValues], slot,
                                  InitAssignments(model))
       IN  /\ shadow' = st.shadow
           /\ clsValues' = st.cls
    /\ insts' = [insts EXCEPT ![slot] = model]
    /\ op' = [NoOp EXCEPT !.kind = "construct", !.node = Root(model, slot),
                          !.status = "ok"]
    /\ wire' = <<>>
    /\ UNCHANGED <<callers, lock, dev>>

\* node.<name> = value
PropertySet(n, name, value, check, k) ==
    LET p == PropertyOf(n, name)
        r == fset(n, p, ResolveValues(n, name, shadow, clsValues), value, check, k)
    IN  /\ Idle
        /\ op' = [NoOp EXCEPT !.kind = "set", !.node = n, !.name = name,
                              !.value = value, !.check = check, !.k = k,
                              !.status = r.status, !.result = r.value,
                              !.token = r.token]
        /\ wire' = r.ev
        /\ UNCHANGED <<insts, shadow, clsValues, callers, lock, dev>>

\* node.<name>, the instrument answering `response`
PropertyGet(n, name, response, check, k) ==
    LET p == PropertyOf(n, name)
        r == fget(n, p, ResolveValues(n, name, shadow, clsValues), response, check, k)
    IN  /\ Idle
        /\ op' = [NoOp EXCEPT !.kind = "get", !.node = n, !.name = name,
                              !.response = response, !.check = check, !.k = k,
                              !.status = r.status, !.result = r.value,
                              !.token = r.token]
        /\ wire' = r.ev
        /\ UNCHANGED <<insts, shadow, clsValues, callers, lock, dev>>

Checks == {<<FALSE, 0>>} \cup {<<TRUE, k>> : k \in 0..MaxErrors}

Next ==
    \/ Return
    \/ Idle /\ \E slot \in Slots_, model \in KeysightModels : Construct(slot, model)
    \/ Idle /\ \E n \in Nodes(insts) : \E name \in PropertyNames(n) : \E c \in Checks :
          \E value \in InputValues(PropertyOf(n, name).validator,
                                   ResolveValues(n, name, shadow, clsValues)) :
              PropertySet(n, name, value, c[1], c[2])
    \/ Idle /\ \E n \in Nodes(insts) : \E name \in PropertyNames(n) : \E c \in Checks :
          \E response \in Responses :
              PropertyGet(n, name, response, c[1], c[2])

Spec == Init /\ [][Next]_vars

-----------------------------------------------------------------------------
(* Free-form commands through the nodes: insert_id, write, write_binary_values *)

Alphabet == {LB, RB, "ch", "ch_type"}

DeclaredTemplates(n) ==
    {PropertyOf(n, name).get_command.t :
        name \in {x \in PropertyNames(n) : PropertyOf(n, x).get_command.has}}
    \cup {PropertyOf(n, name).set_command.t :
        name \in {x \in PropertyNames(n) : PropertyOf(n, x).set_command.has}}

Commands(n) == SeqsUpTo(Alphabet, MaxLen) \cup DeclaredTemplates(n)

\* one KeysightE36311A has been constructed
FmtInit ==
    LET st == ApplyAssignments([shadow |-> [key \in ShadowKeys |-> NoValues],
                                cls |-> [name \in DynamicNames |->
                                            VoltageChannel(name).values]],
                               1, InitAssignments("KeysightE36311A"))
    IN  /\ insts = [s \in Slots_ |-> IF s = 1 THEN "KeysightE36311A" ELSE "none"]
        /\ shadow = st.shadow
        /\ clsValues = st.cls
        /\ op = NoOp
        /\ wire = <<>>
        /\ callers = NoCallers /\ lock = NoLock /\ dev = NoDevice

SubNodes(in) == {n \in Nodes(in) : ~IsRoot(n)}

\* node.insert_id(command)
NodeInsertId(n, command) ==
    LET r == insert_id(n, command)
    IN  /\ Idle
        /\ n.cls \notin CommandGroupClasses
        /\ op' = [NoOp EXCEPT !.kind = "insert_id", !.node = n, !.cmd = command,
                              !.status = IF r.ok THEN "ok" ELSE r.err, !.out = r.out]
        /\ wire' = <<>>
        /\ UNCHANGED <<insts, shadow, clsValues, callers, lock, dev>>

\* node.write(command)
NodeWrite(n, command) ==
    LET f == Forward(n, command)
        w == write(n, command)
    IN  /\ Idle
        /\ op' = [NoOp EXCEPT !.kind = "write", !.node = n, !.cmd = command,
                              !.status = IF w.ok THEN "ok" ELSE w.err, !.out = f.out]
        /\ wire' = w.ev
        /\ UNCHANGED <<insts, shadow, clsValues, callers, lock, dev>>

\* node.write_binary_values(command, values)
NodeWriteBinaryValues(n, command) ==
    LET f == ForwardBinary(n, command)
        w == write_binary_values(n, command)
    IN  /\ Idle
        /\ op' = [NoOp EXCEPT !.kind = "write_binary_values", !.node = n,
                              !.cmd = command,
                              !.status = IF w.ok THEN "ok" ELSE w.err, !.out = f.out]
        /\ wire' = w.ev
        /\ UNCHANGED <<insts, shadow, clsValues, callers, lock, dev>>

FmtNext ==
    \/ Return
    \/ Idle /\ \E n \in SubNodes(insts) : \E c \in Commands(n) : NodeInsertId(n, c)
    \/ Idle /\ \E n \in SubNodes(insts) : \E c \in Commands(n) : NodeWrite(n, c)
    \/ Idle /\ \E n \in SubNodes(insts) : \E c \in Commands(n) : NodeWriteBinaryValues(n, c)

SpecFmt == FmtInit /\ [][FmtNext]_vars

-----------------------------------------------------------------------------
(* Properties of the free-form command operations (checked under SpecFmt) *)

\* the keys a node's insert_id resolves
PlaceholdersOf(n) ==
    IF n.cls \in ScopeChannelClasses
    THEN {placeholder_id, placeholder_channel_type}
    ELSE {placeholder}

\* the value a node's insert_id puts in for a key
ValueOf(n, key) == IF key = placeholder_channel_type THEN channel_type(n.cls) ELSE IdStr(n)

\* the replacement fields str.format_map finds in a well-formed string
RECURSIVE FieldNames(_)
FieldNames(s) ==
    IF s = <<>> THEN {}
    ELSE IF Len(s) >= 2 /\ Head(s) \in {LB, RB} /\ s[2] = Head(s)
         THEN FieldNames(SubSeqFrom(s, 3))
    ELSE IF Len(s) >= 3 /\ Head(s) = LB /\ s[3] = RB
         THEN {s[2]} \cup FieldNames(SubSeqFrom(s, 4))
    ELSE FieldNames(Tail(s))

\* every brace of s belongs to a field {key} with key in keys: no doubled
\* (escaped) braces, no stray braces, no foreign field
OnlyFields(s, keys) ==
    /\ \A i \in 1..Len(s) : s[i] = LB =>
            i + 2 <= Len(s) /\ s[i + 1] \in keys /\ s[i + 2] = RB
    /\ \A i \in 1..Len(s) : s[i] = RB => i >= 3 /\ s[i - 2] = LB

\* purely textual substitution of the fields {key} by the node's values
RECURSIVE TextSubst(_, _)
TextSubst(s, n) ==
    IF s = <<>> THEN <<>>
    ELSE IF Len(s) >= 3 /\ s[1] = LB /\ s[2] \in PlaceholdersOf(n) /\ s[3] = RB
         THEN <<ValueOf(n, s[2])>> \o TextSubst(SubSeqFrom(s, 4), n)
    ELSE <<Head(s)>> \o TextSubst(Tail(s), n)

ChannelOfRoot(n) == n.cls \in ChannelClasses /\ IsRoot(n.parent)

\* C1: write(command) on a Channel/SubSystem node whose parent is the root
\* Instrument puts on the transport exactly what the Instrument's own write puts
\* there for insert_id(command): the placeholder is substituted once, at the node,
\* and nothing is transmitted when the substitution fails.
C1_WriteSubstitutesOnce ==
    (op.kind = "write" /\ ChannelOfRoot(op.node)) =>
        LET r == insert_id(op.node, op.cmd)
        IN  IF r.ok
            THEN op.status = "ok" /\ wire = Instrument_write(r.out).ev
            ELSE op.status # "ok" /\ wire = <<>>

\* a doubled-brace command reaches the wire with the braces unescaped once and
\* the field it then spells left alone
C1_Witness ==
    /\ op.kind = "write"
    /\ op.node.cls = "VoltageChannel"
    /\ op.cmd = <<LB, LB, "ch", RB, RB>>
    /\ wire = <<W("{ch}")>>

DeclaredChannelType(cls) ==
    CASE cls = "ScopeChannel" -> "CH"
      [] cls = "MathChannel" -> "MATH"
      [] cls = "MemoryChannel" -> "REF"

\* C7: BaseScopeChannel.insert_id resolves {ch_type} and {ch} in one pass: on
\* every scope channel class and identity, '{ch_type}{ch}:LABel:XPOS?' renders
\* to the class's channel_type followed by the identity, and every declared
\* template renders with each {ch_type} replaced by the channel type and each
\* {ch} by the identity, a template with only {ch} getting only the identity.
C7_TwoPlaceholdersOnePass ==
    (/\ op.kind = "insert_id"
     /\ op.node.cls \in ScopeChannelClasses
     /\ op.cmd \in DeclaredTemplates(op.node)) =>
        /\ op.status = "ok"
        /\ op.out = TextSubst(op.cmd, op.node)
        /\ (op.cmd = BaseScopeChannel("label_x").get_command.t =>
                Join(op.out) = DeclaredChannelType(op.node.cls) \o op.node.id
                                   \o ":LABel:XPOS?")
        /\ (FieldNames(op.cmd) = {"ch"} =>
                Len(op.out) = Len(op.cmd) - 2 * Count(op.cmd, LB)
                /\ \A i \in 1..Len(op.out) :
                      op.out[i] \in {op.node.id} \cup {op.cmd[j] : j \in 1..Len(op.cmd)})

\* math channel 2 renders the label position query
C7_Witness ==
    /\ op.kind = "insert_id"
    /\ op.node.cls = "MathChannel" /\ op.node.id = "2"
    /\ op.cmd = <<LB, "ch_type", RB, LB, "ch", RB, ":LABel:XPOS?">>
    /\ Join(op.out) = "MATH2:LABel:XPOS?"

-----------------------------------------------------------------------------
(* Properties of the get/set protocol (checked under Spec) *)

\* the descriptor and the values the last operation worked with
OpProperty == PropertyOf(op.node, op.name)
OpValues == ResolveValues(op.node, op.name, shadow, clsValues)

\* v lies in the domain a validator of this kind checks against
InDomain(validator, values, v) ==
    IF validator \in {"strict_range", "truncated_range"}
    THEN Lo(values) <= v.n /\ v.n <= Hi(values)
    ELSE \E i \in 1..Len(values.keys) : PyEq(values.keys[i], v)

\* the wire string of the set command of p for an already mapped value
ExpectedCommand(n, t, v) ==
    LET f == PercentFormat(t, v).out
    IN  Join(IF IsRoot(n) \/ n.cls \in CommandGroupClasses THEN f ELSE TextSubst(f, n))

\* from position `from` on, ev is error-queue traffic: query, answer, query, ...
ErrorTraffic(ev, from) ==
    \A i \in from..Len(ev) :
        IF (i - from) % 2 = 0 THEN ev[i] = W(ErrorQuery) ELSE ev[i].d = "r"

ValidationErrors == {"RangeError", "DiscreteSetError"}

KeysightNode(slot, ch) == IntNode("VoltageChannel", Root(insts[slot], slot), ch)

\* the ranges the two constructors assign
AssignedRange(model, ch, name) ==
    CASE name = "current_limit" -> IF ch = 1 THEN Range(0, 5) ELSE Range(0, 1)
      [] name = "voltage_setpoint" /\ ch = 1 -> Range(0, 6)
      [] name = "voltage_setpoint" /\ ch = 2 -> Range(0, 25)
      [] name = "voltage_setpoint" /\ ch = 3 ->
             IF model = "KeysightE36311A" THEN Range(-25, 0) ELSE Range(0, 25)

C3_Original ==
    (/\ op.kind = "set"
     /\ OpProperty.set_command.has
     /\ OpProperty.validator # "none"
     /\ ~InDomain(OpProperty.validator, OpValues, op.value)) =>
        op.status \in ValidationErrors /\ wire = <<>>

\* C3 (amended): for every control or setting with a strict validator
\* (strict_range, strict_discrete_set), a set with a value outside the domain
\* fails with a validation error and transmits nothing; a set with a member of
\* the domain transmits exactly the rendered command; a control validated by
\* truncated_range transmits the nearest bound for a value outside its range.
\* On PLZ1205W.current_range, "MED" sends CURR:RANG MED and "BOGUS" fails with
\* DiscreteSetError and sends nothing.
C3_ValidationGuardsTransmission ==
    /\ (op.kind = "set" /\ OpProperty.set_command.has /\ OpProperty.validator # "none") =>
          LET in == InDomain(OpProperty.validator, OpValues, op.value)
              sent == IF OpProperty.validator = "truncated_range" /\ ~in
                      THEN IF op.value.n > Hi(OpValues) THEN Num(Hi(OpValues))
                                                        ELSE Num(Lo(OpValues))
                      ELSE op.value
              token == IF OpProperty.map_values THEN to_wire(sent, OpValues).v ELSE sent
          IN  IF OpProperty.validator # "truncated_range" /\ ~in
              THEN op.status \in ValidationErrors /\ wire = <<>>
              ELSE /\ op.status = "ok"
                   /\ Len(wire) >= 1
                   /\ wire[1] = W(ExpectedCommand(op.node, OpProperty.set_command.t, token))
                   /\ ErrorTraffic(wire, 2)
    /\ (op.kind = "set" /\ op.node = PLZ1205W_root /\ op.name = "current_range") =>
          /\ op.value = Str("MED") => op.status = "ok" /\ wire[1] = W("CURR:RANG MED")
          /\ op.value = Str("BOGUS") => op.status = "DiscreteSetError" /\ wire = <<>>

\* BOGUS is refused by PLZ1205W.current_range with nothing transmitted
C3_Witness ==
    /\ op.kind = "set"
    /\ op.node = PLZ1205W_root /\ op.name = "current_range"
    /\ op.value = Str("BOGUS")
    /\ op.status = "DiscreteSetError"
    /\ wire = <<>>

\* C4: a successful set validates, maps, renders and then issues exactly one
\* transport write, the rendered command of the mapped, validated value; no
\* response is read for the set itself, and the error-queue queries of
\* check_set_errors, if any, all come after that write.
C4_SetOrder ==
    (op.kind = "set" /\ op.status = "ok") =>
        /\ op.result = Validate(OpProperty.validator, op.value, OpValues).v
        /\ op.token = IF OpProperty.map_values
                      THEN to_wire(op.result, OpValues).v ELSE op.result
        /\ Len(wire) = IF op.check THEN 1 + 2 * (op.k + 1) ELSE 1
        /\ wire[1] = W(ExpectedCommand(op.node, OpProperty.set_command.t, op.token))
        /\ Cardinality({i \in 1..Len(wire) :
                           wire[i].d = "w" /\ wire[i].s # ErrorQuery}) = 1
        /\ ErrorTraffic(wire, 2)
        /\ (op.node.cls = "VoltageChannel" /\ op.node.id = "2"
              /\ op.name = "output_enabled" /\ op.value = Bool(TRUE)
                => wire[1] = W("OUTPut 1, (@2)"))

\* output_enabled = True on channel 2 with one entry in the error queue: the
\* write, then two error queries with their answers
C4_Witness ==
    /\ op.kind = "set" /\ op.status = "ok"
    /\ op.node.cls = "VoltageChannel" /\ op.node.id = "2"
    /\ op.name = "output_enabled" /\ op.value = Bool(TRUE)
    /\ op.check /\ op.k = 1
    /\ wire = <<W("OUTPut 1, (@2)"), W(ErrorQuery), R(AnError), W(ErrorQuery), R(NoError)>>

\* C5: getting a write-only setting fails with NotReadableError and setting a
\* read-only measurement fails with NotWritableError, nothing being transmitted;
\* Chroma63600Channel.mode is such a setting, Chroma63600Channel.voltage such a
\* measurement.
C5_MisuseTransmitsNothing ==
    /\ (op.kind = "get" /\ ~OpProperty.get_command.has) =>
          op.status = "NotReadableError" /\ wire = <<>>
    /\ (op.kind = "set" /\ ~OpProperty.set_command.has) =>
          op.status = "NotWritableError" /\ wire = <<>>
    /\ (op.kind = "get" /\ op.node.cls = "Chroma63600Channel" /\ op.name = "mode") =>
          op.status = "NotReadableError" /\ wire = <<>>
    /\ (op.kind = "set" /\ op.node.cls = "Chroma63600Channel" /\ op.name = "voltage") =>
          op.status = "NotWritableError" /\ wire = <<>>

\* a get of mode on a Chroma channel is refused
C5_Witness ==
    /\ op.kind = "get"
    /\ op.node.cls = "Chroma63600Channel" /\ op.name = "mode"
    /\ op.status = "NotReadableError"
    /\ wire = <<>>

\* C9: a get through a non-root node writes the rendered query once, then
\* reads once; the value is parsed from the transport's response as it came,
\* and the error-queue queries of check_get_errors, if any, all come after the
\* read.
C9_GetWriteThenRead ==
    (/\ op.kind = "get"
     /\ ~IsRoot(op.node)
     /\ op.status \notin {"NotReadableError", "TemplateError"}) =>
        LET t == OpProperty.get_command.t
            query == IF op.node.cls \in CommandGroupClasses THEN t
                     ELSE TextSubst(t, op.node)
        IN  /\ Len(wire) = IF op.check /\ op.status # "MapError"
                           THEN 2 + 2 * (op.k + 1) ELSE 2
            /\ wire[1] = W(Join(query))
            /\ wire[2] = R(op.response)
            /\ op.token = Parse(op.response)
            /\ ErrorTraffic(wire, 3)
            /\ Cardinality({i \in 1..Len(wire) :
                               wire[i].d = "w" /\ wire[i].s # ErrorQuery}) = 1

\* a get of current_measure on channel 3, the instrument answering with text
\* that spells a placeholder, and one entry in the error queue
C9_Witness ==
    /\ op.kind = "get" /\ op.status = "ok"
    /\ op.node.cls = "VoltageChannel" /\ op.node.id = "3"
    /\ op.name = "current_measure"
    /\ op.response = "{ch}" /\ op.result = Str("{ch}")
    /\ op.check /\ op.k = 1
    /\ wire = <<W("MEAS:CURRent? (@3)"), R("{ch}"),
                W(ErrorQuery), R(AnError), W(ErrorQuery), R(NoError)>>

ValueMaps ==
    {BOOLEAN_TO_INT, BOOLEAN_TO_STR, BOOLEAN_TO_ON_OFF, BINARY, INLINE_ON_OFF, INLINE_1_0}

\* the token a set puts in the value slot of its command, read back
Echo(t, v) == Parse(FormatValue(CHOOSE x \in Slots : Contains(t, x), v).v.s)

\* C10: every value map is one-to-one (mapping a logical value to its wire
\* token and the token back returns the value), so a set of a mapped property
\* followed by reading back the token it sent gives the value set; setting True
\* on PLZ334WL.output_enabled sends ON and a get receiving OFF returns False.
C10_ValueMapRoundTrip ==
    /\ \A m \in ValueMaps : \A i \in 1..Len(m.keys) :
          /\ to_wire(m.keys[i], m).ok
          /\ from_wire(to_wire(m.keys[i], m).v, m) = Valid(m.keys[i])
          /\ \A j \in 1..Len(m.keys) :
                PyEq(to_wire(m.keys[i], m).v, to_wire(m.keys[j], m).v) => i = j
    /\ (op.kind = "set" /\ op.status = "ok" /\ OpProperty.map_values) =>
          LET back == from_wire(Echo(OpProperty.set_command.t, op.token), OpValues)
          IN  back.ok /\ PyEq(back.v, op.value)
    /\ (op.kind = "set" /\ op.node = PLZ334WL_root /\ op.name = "output_enabled"
          /\ op.value = Bool(TRUE)) => wire[1] = W("OUTP:STAT ON")
    /\ (op.kind = "get" /\ op.node = PLZ334WL_root /\ op.name = "output_enabled"
          /\ op.response = "OFF") => op.status = "ok" /\ op.result = Bool(FALSE)

\* a get of PLZ334WL.output_enabled that receives OFF returns False
C10_Witness ==
    /\ op.kind = "get" /\ op.status = "ok"
    /\ op.node = PLZ334WL_root /\ op.name = "output_enabled"
    /\ op.response = "OFF"
    /\ op.result = Bool(FALSE)

-----------------------------------------------------------------------------
(* Range validation (checked under Spec) *)

\* v brought into [lo, hi]
Clamp(v, lo, hi) == IF v < lo THEN lo ELSE IF v > hi THEN hi ELSE v

\* C11: with inclusive bounds [lo, hi], a set on a strict_range control passes
\* every lo <= v <= hi unchanged (both bounds included) and fails with
\* RangeError otherwise, transmitting nothing; a set on a truncated_range
\* control passes lo for v < lo, hi for v > hi and v otherwise, so what it
\* transmits always lies inside the range.
C11_RangeValidation ==
    (/\ op.kind = "set"
     /\ OpProperty.set_command.has
     /\ OpProperty.validator \in {"strict_range", "truncated_range"}) =>
        LET lo == Lo(OpValues)
            hi == Hi(OpValues)
            v == op.value.n
        IN  IF OpProperty.validator = "strict_range"
            THEN IF lo <= v /\ v <= hi
                 THEN /\ op.status = "ok"
                      /\ op.result = op.value
                      /\ wire[1] = W(ExpectedCommand(op.node, OpProperty.set_command.t,
                                                     op.value))
                 ELSE op.status = "RangeError" /\ wire = <<>>
            ELSE /\ op.status = "ok"
                 /\ op.result.n = Clamp(v, lo, hi)
                 /\ lo <= op.token.n /\ op.token.n <= hi
                 /\ wire[1] = W(ExpectedCommand(op.node, OpProperty.set_command.t,
                                                Num(Clamp(v, lo, hi))))

\* Chroma63600Channel.current_setpoint = 101 transmits the upper bound 100
C11_Witness ==
    /\ op.kind = "set" /\ op.status = "ok"
    /\ op.node.cls = "Chroma63600Channel" /\ op.name = "current_setpoint"
    /\ op.value.n = 101
    /\ op.result.n = 100
    /\ wire[1] = W("CURR 100")

-----------------------------------------------------------------------------
(* Draining the error queue, one query at a time *)

OtherError == "-222,Data out of range"

ErrorEntries == {AnError, OtherError}

\* the error queues the instrument may hold when check_errors is called
ErrorQueues == SeqsUpTo(ErrorEntries, MaxQueue)

\* the instrument's answer to the error query: its oldest entry, or the
\* sentinel when the queue is empty
next_error(errs) == IF errs = <<>> THEN NoError ELSE Head(errs)

\* an entry with code 0
IsSentinel(r) == r = NoError

\* the single-threaded caller
Main == 1

\* no iteration cap
MayQuery_unbounded(count) == TRUE

\* another query is allowed while fewer than the cap have been issued
MayQuery(count) == count < ErrorQueueCap

\* node.check_errors(): handed up to the root, which starts with no entries
CheckErrorsCall(c, n, q) ==
    /\ callers[c].pc = "idle"
    /\ callers' = [callers EXCEPT ![c] =
                      [IdleCaller EXCEPT !.pc = "check_errors", !.kind = "check_errors",
                                         !.node = n, !.given = q]]
    /\ dev' = [dev EXCEPT !.errs = q]
    /\ wire' = <<>>
    /\ UNCHANGED <<insts, shadow, clsValues, op, lock>>

\* one error query and its answer
CheckErrorsQuery(c) ==
    LET me == callers[c]
        r == next_error(dev.errs)
    IN  /\ me.pc = "check_errors"
        /\ MayQuery(me.count)
        /\ wire' = wire \o <<W(ErrorQuery), R(r)>>
        /\ dev' = [dev EXCEPT !.errs = IF @ = <<>> THEN <<>> ELSE Tail(@)]
        /\ callers' = [callers EXCEPT ![c] =
                          IF IsSentinel(r)
                          THEN [me EXCEPT !.count = @ + 1, !.pc = "done", !.status = "ok"]
                          ELSE [me EXCEPT !.count = @ + 1, !.entries = Append(@, r)]]
        /\ UNCHANGED <<insts, shadow, clsValues, op, lock>>

\* the cap is reached without a sentinel
CheckErrorsOverflow(c) ==
    LET me == callers[c]
    IN  /\ me.pc = "check_errors"
        /\ ~MayQuery(me.count)
        /\ callers' = [callers EXCEPT ![c] =
                          [me EXCEPT !.pc = "done", !.status = "ErrorQueueOverflowError"]]
        /\ UNCHANGED <<insts, shadow, clsValues, op, wire, lock, dev>>

\* check_errors returns its entries, or raises
CheckErrorsReturn(c) ==
    /\ callers[c].pc = "done"
    /\ callers' = [callers EXCEPT ![c] = IdleCaller]
    /\ wire' = <<>>
    /\ dev' = NoDevice
    /\ UNCHANGED <<insts, shadow, clsValues, op, lock>>

ErrNext ==
    \/ \E n \in Nodes(insts) : \E q \in ErrorQueues : CheckErrorsCall(Main, n, q)
    \/ CheckErrorsQuery(Main)
    \/ CheckErrorsOverflow(Main)
    \/ CheckErrorsReturn(Main)

SpecErr == Init /\ [][ErrNext]_vars

\* C12: check_errors with iteration cap N issues its error queries one at a
\* time and stops at the first sentinel entry, returning the entries read
\* before it in the order the instrument gave them; it never issues more than
\* N queries, and when none of the first N answers is the sentinel it fails
\* with ErrorQueueOverflowError after exactly N queries (N = 5).
C12_CheckErrorsBounded ==
    \A c \in Callers : callers[c].kind = "check_errors" =>
        LET me == callers[c]
            Answer(i) == wire[2 * i].s
            closed == check_errors(Len(me.given))
        IN  /\ Len(wire) = 2 * me.count
            /\ me.count <= ErrorQueueCap
            /\ \A i \in 1..me.count : wire[2 * i - 1] = W(ErrorQuery) /\ wire[2 * i].d = "r"
            /\ \A i \in 1..(me.count - 1) : ~IsSentinel(Answer(i))
            /\ me.entries = [i \in 1..Len(me.entries) |-> Answer(i)]
            /\ me.entries = SubSeq(me.given, 1, Len(me.entries))
            /\ me.pc = "check_errors" => Len(me.entries) = me.count
            /\ me.pc = "done" =>
                  /\ \/ /\ me.status = "ok"
                        /\ IsSentinel(Answer(me.count))
                        /\ me.entries = me.given
                        /\ Len(me.entries) = me.count - 1
                     \/ /\ me.status = "ErrorQueueOverflowError"
                        /\ me.count = ErrorQueueCap
                        /\ me.count = 5
                        /\ Len(me.entries) = ErrorQueueCap
                        /\ Len(me.given) >= ErrorQueueCap
                  /\ me.status = (IF closed.ok THEN "ok" ELSE closed.err)
                  /\ Len(wire) = Len(closed.ev)

\* a queue of six entries: the fifth query is the last, and the call fails
C12_Witness ==
    /\ callers[Main].pc = "done"
    /\ callers[Main].status = "ErrorQueueOverflowError"
    /\ Len(callers[Main].given) = 6
    /\ callers[Main].count = 5
    /\ Len(wire) = 10

-----------------------------------------------------------------------------
(* Scenario A: PWR1201L.voltage_setpoint (checked under Spec) *)

\* C14 as stated: setting 10.0 on PWR1201L.voltage_setpoint sends the literal
\* bytes VOLT 10.0.
C14_Original ==
    (/\ op.kind = "set"
     /\ op.node = PWR1201L_root /\ op.name = "voltage_setpoint"
     /\ op.value = Float(10)) =>
        wire[1] = W("VOLT 10.0")

\* C14 (amended): PWR1201L.voltage_setpoint has read template VOLT?, write
\* template VOLT %g and range [0, 40]; setting 10.0 sends VOLT 10 (the %g slot
\* drops the trailing .0), and a get that receives 10.000000E+00 sends VOLT?
\* and returns the float 10.0.
C14_ScenarioA ==
    /\ PWR1201L("voltage_setpoint").get_command = Cmd(<<"VOLT?">>)
    /\ PWR1201L("voltage_setpoint").set_command = Cmd(<<"VOLT ", "%g">>)
    /\ (op.node = PWR1201L_root /\ op.name = "voltage_setpoint") =>
          /\ OpValues = Range(0, 40)
          /\ (op.kind = "set" /\ op.value = Float(10)) =>
                /\ op.status = "ok"
                /\ op.result = Float(10)
                /\ wire[1] = W("VOLT 10")
                /\ ErrorTraffic(wire, 2)
          /\ (op.kind = "get" /\ op.response = "10.000000E+00") =>
                /\ op.status = "ok"
                /\ wire[1] = W("VOLT?")
                /\ wire[2] = R("10.000000E+00")
                /\ op.result = Float(10)
                /\ PyStr(op.result) = "10.0"

\* voltage_setpoint = 10.0 has been transmitted as VOLT 10
C14_Witness ==
    /\ op.kind = "set" /\ op.status = "ok"
    /\ op.node = PWR1201L_root /\ op.name = "voltage_setpoint"
    /\ op.value = Float(10)
    /\ ~op.check
    /\ wire = <<W("VOLT 10")>>

-----------------------------------------------------------------------------
(* Callers sharing the transport of an instrument *)

\* the instrument a node talks through, and the node itself, as lock names
InstrumentName(n) == RootOf(n).model

NodeName(n) ==
    IF IsRoot(n) THEN n.model
    ELSE IF n.cls \in CommandGroupClasses THEN InstrumentName(n) \o "/" \o n.cls
    ELSE InstrumentName(n) \o "/" \o n.cls \o n.id

\* "single": one caller, no lock; "none": several callers, no lock; "node": one
\* lock per node; "instrument": one lock per Instrument
LockModes == {"none", "node", "instrument"}

\* every caller serialised per node
LockKey_node(mode, n) == NodeName(n)

\* the lock a caller takes for a cycle through node n
LockKey(mode, n) == IF mode = "instrument" THEN InstrumentName(n) ELSE NodeName(n)

\* the calls made on the shared instruments: kind, class, property, value
BusOps ==
    {<<"get", "VoltageChannel", "voltage_measure", NoVal>>,
     <<"set", "VoltageChannel", "voltage_setpoint", Num(1)>>,
     <<"get", "ScopeChannel", "label_name", NoVal>>,
     <<"get", "Acquisition", "state", NoVal>>,
     <<"set", "Acquisition", "fastacq_state", Num(1)>>}

BusNodes(in) ==
    {n \in SubNodes(in) :
        \/ n.cls \in CommandGroupClasses
        \/ n.cls \in {"VoltageChannel", "ScopeChannel"} /\ n.num <= MaxId}

\* what the instrument currently answers to a query
Readings == {"1", "2"}

\* position of the oldest pending response of instrument `at`, 0 if none
RECURSIVE FirstAt(_, _, _)
FirstAt(out, at, i) ==
    IF i > Len(out) THEN 0
    ELSE IF out[i].at = at THEN i
    ELSE FirstAt(out, at, i + 1)

RECURSIVE FirstFor(_, _, _, _)
FirstFor(out, at, c, i) ==
    IF i > Len(out) THEN 0
    ELSE IF out[i].at = at /\ out[i].by = c THEN i
    ELSE FirstFor(out, at, c, i + 1)

\* the response handed to the caller that asked for it
Deliver_matched(out, at, c) == FirstFor(out, at, c, 1)

\* a read takes the oldest pending response of the instrument, whoever asked
Deliver(out, at, c) == FirstAt(out, at, 1)

RemoveAt(seq, i) == SubSeq(seq, 1, i - 1) \o SubSeq(seq, i + 1, Len(seq))

\* a KeysightE36311A and the scope are connected; the program follows one of
\* the given disciplines
Connected(modes, readings) ==
    LET st == ApplyAssignments([shadow |-> [key \in ShadowKeys |-> NoValues],
                                cls |-> [name \in DynamicNames |->
                                            VoltageChannel(name).values]],
                               1, InitAssignments("KeysightE36311A"))
    IN  /\ insts = [s \in Slots_ |-> IF s = 1 THEN "KeysightE36311A" ELSE "none"]
        /\ shadow = st.shadow
        /\ clsValues = st.cls
        /\ op = NoOp
        /\ wire = <<>>
        /\ callers = NoCallers
        /\ \E m \in modes : lock = [mode |-> m, held |-> {}]
        /\ \E v \in readings : dev = [NoDevice EXCEPT !.val = v]

\* a completed get, as kept in the caller's history
Past(me) ==
    [node |-> NodeName(me.node), name |-> me.name, r |-> me.got.r, seen |-> me.seen]

\* a new call starts from an idle caller, keeping its history
Begin(me, n, o) ==
    [IdleCaller EXCEPT !.pc = "acquire", !.kind = o[1], !.node = n, !.name = o[3],
                       !.value = o[4], !.prev = me.prev, !.queries = me.queries]

\* a get of a property the caller has read before is answered from its history
BusCall_cached(c, n, o) ==
    LET me == callers[c]
        hits == {i \in 1..Len(me.prev) :
                    me.prev[i].node = NodeName(n) /\ me.prev[i].name = o[3]}
        last == CHOOSE i \in hits : \A j \in hits : j <= i
    IN  /\ me.pc = "idle"
        /\ n.cls = o[2]
        /\ Len(me.prev) < MaxOps
        /\ callers' = [callers EXCEPT ![c] =
              IF o[1] = "get" /\ hits # {}
              THEN [Begin(me, n, o) EXCEPT !.pc = "release", !.status = "ok",
                       !.got = [NoReply EXCEPT !.r = me.prev[last].r, !.by = c],
                       !.seen = me.prev[last].r,
                       !.result = Parse(me.prev[last].r)]
              ELSE Begin(me, n, o)]
        /\ UNCHANGED <<insts, shadow, clsValues, op, wire, lock, dev>>

\* caller c starts node.<name> or node.<name> = value
BusCall(c, n, o) ==
    LET me == callers[c]
    IN  /\ me.pc = "idle"
        /\ n.cls = o[2]
        /\ Len(me.prev) < MaxOps
        /\ callers' = [callers EXCEPT ![c] = Begin(me, n, o)]
        /\ UNCHANGED <<insts, shadow, clsValues, op, wire, lock, dev>>

\* the external lock, if the program uses one, is taken for the whole cycle
BusAcquire(c) ==
    LET me == callers[c]
        key == LockKey(lock.mode, me.node)
    IN  /\ me.pc = "acquire"
        /\ IF lock.mode \in {"node", "instrument"}
           THEN /\ \A h \in lock.held : h.key # key
                /\ lock' = [lock EXCEPT !.held = @ \cup {[key |-> key, by |-> c]}]
           ELSE lock' = lock
        /\ callers' = [callers EXCEPT ![c] = [me EXCEPT !.pc = "write"]]
        /\ UNCHANGED <<insts, shadow, clsValues, op, wire, dev>>

\* the caller is at its write and the access has a command to transmit: the
\* only conditions of BusWrite, which asks for no lock and awaits no reader
BusWritable(c) ==
    LET me == callers[c]
        ev == IF me.kind = "get"
              THEN write(me.node, PropertyOf(me.node, me.name).get_command.t).ev
              ELSE fset(me.node, PropertyOf(me.node, me.name),
                        ResolveValues(me.node, me.name, shadow, clsValues),
                        me.value, FALSE, 0).ev
    IN  me.pc = "write" /\ Len(ev) = 1

\* the command goes down the parent chain onto the instrument's transport; the
\* instrument queues its answer to a query
BusWrite(c) ==
    LET me == callers[c]
        p == PropertyOf(me.node, me.name)
        values == ResolveValues(me.node, me.name, shadow, clsValues)
        get == me.kind = "get"
        ev == IF get THEN write(me.node, p.get_command.t).ev
              ELSE fset(me.node, p, values, me.value, FALSE, 0).ev
        at == InstrumentName(me.node)
        Disturbed(o) ==
            o # c /\ callers[o].pc = "read" /\ InstrumentName(callers[o].node) = at
    IN  /\ BusWritable(c)
        /\ dev' = IF get
                  THEN [dev EXCEPT !.out = Append(@, [q |-> ev[1].s, r |-> dev.val,
                                                      by |-> c, at |-> at])]
                  ELSE dev
        /\ callers' = [o \in Callers |->
              IF o = c
              THEN [me EXCEPT !.pc = IF get THEN "read" ELSE "release",
                              !.sent = ev[1].s, !.seen = dev.val, !.alone = TRUE,
                              !.status = IF get THEN @ ELSE "ok",
                              !.queries = IF get /\ lock.mode = "single" THEN @ + 1 ELSE @]
              ELSE IF Disturbed(o) THEN [callers[o] EXCEPT !.alone = FALSE]
              ELSE callers[o]]
        /\ UNCHANGED <<insts, shadow, clsValues, op, wire, lock>>

\* the read comes back up the parent chain with the next pending response
BusRead(c) ==
    LET me == callers[c]
        i == Deliver(dev.out, InstrumentName(me.node), c)
        reply == dev.out[i]
        r == fget(me.node, PropertyOf(me.node, me.name),
                  ResolveValues(me.node, me.name, shadow, clsValues), reply.r, FALSE, 0)
    IN  /\ me.pc = "read"
        /\ i # 0
        /\ dev' = [dev EXCEPT !.out = RemoveAt(@, i)]
        /\ callers' = [callers EXCEPT ![c] =
                          [me EXCEPT !.pc = "release", !.got = reply,
                                     !.result = r.value, !.status = r.status]]
        /\ UNCHANGED <<insts, shadow, clsValues, op, wire, lock>>

\* the cycle ends: the lock is given back and the call returns
BusRelease(c) ==
    LET me == callers[c]
    IN  /\ me.pc = "release"
        /\ lock' = [lock EXCEPT !.held = {h \in @ : h.by # c}]
        /\ callers' = [callers EXCEPT ![c] =
              [IdleCaller EXCEPT
                  !.prev = IF lock.mode = "single" /\ me.kind = "get"
                           THEN Append(me.prev, Past(me)) ELSE me.prev,
                  !.queries = me.queries]]
        /\ UNCHANGED <<insts, shadow, clsValues, op, wire, dev>>

\* the quantity the instrument measures changes
InstrumentChange(v) ==
    /\ v # dev.val
    /\ dev' = [dev EXCEPT !.val = v]
    /\ UNCHANGED <<insts, shadow, clsValues, op, wire, callers, lock>>

\* the nodes of the one instrument the concurrent callers share
SharedNodes(in) ==
    {n \in BusNodes(in) : InstrumentName(n) = InstrumentName(TektronixBaseScope_root)}

BusNext ==
    \/ \E c \in Callers : \E n \in SharedNodes(insts) : \E o \in BusOps : BusCall(c, n, o)
    \/ \E c \in Callers : BusAcquire(c)
    \/ \E c \in Callers : BusWrite(c)
    \/ \E c \in Callers : BusRead(c)
    \/ \E c \in Callers : BusRelease(c)

BusInit == Connected(LockModes, {"1"})

SpecBus == BusInit /\ [][BusNext]_vars

\* a single-threaded program: one caller, whose completed gets are recorded
SeqInit == Connected({"single"}, Readings)

SeqNext ==
    \/ \E n \in BusNodes(insts) : \E o \in BusOps : BusCall(Main, n, o)
    \/ BusAcquire(Main)
    \/ BusWrite(Main)
    \/ BusRead(Main)
    \/ BusRelease(Main)
    \/ \E v \in Readings : InstrumentChange(v)

SpecSeq == SeqInit /\ [][SeqNext]_vars

-----------------------------------------------------------------------------
(* Properties of the shared transport (checked under SpecSeq and SpecBus) *)

\* the caller has written its query and not yet returned
InFlight(me) == me.kind = "get" /\ me.pc \in {"read", "release"}

\* C13: no property value is cached. Every get issues its own query and returns
\* the value parsed from that query's response: a caller that has completed k
\* gets has issued k queries (one more while a get is in flight), and each get
\* returns what the instrument held when that get's query was written, so a get
\* after the instrument's value changed returns the new value.
C13_NoCaching ==
    \A c \in Callers :
        LET me == callers[c]
        IN  /\ me.queries = Len(me.prev) + (IF InFlight(me) THEN 1 ELSE 0)
            /\ (me.kind = "get" /\ me.pc = "release") =>
                  /\ me.status = "ok"
                  /\ me.got.q = me.sent
                  /\ me.got.r = me.seen
                  /\ me.result = Parse(me.got.r)
            /\ \A i \in 1..Len(me.prev) : me.prev[i].r = me.prev[i].seen

\* two consecutive gets of voltage_measure on the same channel issued two
\* queries and returned two different values
C13_Witness ==
    LET me == callers[Main]
    IN  /\ Len(me.prev) = 2
        /\ me.prev[1].node = me.prev[2].node
        /\ me.prev[1].name = "voltage_measure" /\ me.prev[2].name = "voltage_measure"
        /\ me.prev[1].r # me.prev[2].r
        /\ me.queries = 2

\* the caller is inside a cycle on the transport of instrument `at`
Inside(me, at) ==
    me.pc \in {"write", "read", "release"} /\ InstrumentName(me.node) = at

\* C15: when every cycle is executed under the Instrument's single exclusive
\* lock, then whichever Channel or CommandGroup nodes the callers go through,
\* at most one caller is inside a cycle on that instrument, every response a
\* caller reads answers the query the same caller wrote in the same cycle, and
\* no other caller's command was transmitted between its write and its read.
C15_InstrumentLockPairs ==
    lock.mode = "instrument" =>
        /\ \A c, d \in Callers :
              (c # d /\ Inside(callers[c], InstrumentName(callers[c].node)))
                  => ~Inside(callers[d], InstrumentName(callers[c].node))
        /\ \A c \in Callers :
              LET me == callers[c]
              IN  /\ me.pc = "read" => me.alone
                  /\ (me.kind = "get" /\ me.pc = "release") =>
                        /\ me.got.by = c
                        /\ me.got.q = me.sent
                        /\ me.alone

\* under the instrument lock one caller has read the answer to its own query
\* through the Acquisition command group while another, going through a scope
\* channel, waits for the lock
C15_Witness ==
    /\ lock.mode = "instrument"
    /\ \E c, d \in Callers :
          /\ c # d
          /\ callers[c].pc = "release" /\ callers[c].kind = "get"
          /\ callers[c].node.cls = "Acquisition"
          /\ callers[c].got.by = c /\ callers[c].got.q = "ACQuire:STATE?"
          /\ callers[d].pc = "acquire"
          /\ callers[d].node.cls = "ScopeChannel"

\* C16: the engine provides no serialization. Without the instrument lock a
\* caller about to write is never made to wait for another caller's read, and
\* a read takes the oldest pending response of the instrument whoever wrote the
\* query, so when two queries are written before either response is read the
\* first reader receives the answer to the other caller's query; one lock per
\* node does not exclude it.
C16_NoSerialization ==
    /\ [](\A c \in Callers :
            (lock.mode \in {"none", "node"} /\ callers[c].pc = "write")
                => BusWritable(c))
    /\ [][\A c \in Callers :
            (callers[c].pc = "read" /\ callers'[c].pc = "release") =>
                callers'[c].got =
                    dev.out[FirstAt(dev.out, InstrumentName(callers[c].node), 1)]]_vars

\* with one lock per node, two callers on two different scope channels: both
\* queries were written, and the second caller has read the answer to the first
\* caller's query while the first still waits
C16_Witness ==
    /\ lock.mode = "node"
    /\ \E c, d \in Callers :
          /\ c # d
          /\ callers[c].node.cls = "ScopeChannel" /\ callers[d].node.cls = "ScopeChannel"
          /\ callers[c].node # callers[d].node
          /\ callers[c].pc = "read"
          /\ callers[d].pc = "release"
          /\ callers[d].got.by = c
          /\ callers[d].got.q = callers[c].sent
          /\ callers[d].got.q # callers[d].sent

-----------------------------------------------------------------------------
(* Calls whose transport may fail: property access and the scope's helper flows *)

\* a transport call that raised
X(s) == [d |-> "x", s |-> s]

\* the scope's temporary directory and the file of the a-th screenshot attempt
TempDir == "C:/temp"

TempFile(a) == TempDir \o "/" \o ToString(a) \o ".png"

Quoted(s) == "\"" \o s \o "\""

\* directory listings the scope may answer FILESystem:DIR? with, and the file
\* names split(',') and strip('"') extract from them
Listings ==
    {[text |-> "", files |-> <<>>],
     [text |-> "\"\"", files |-> <<>>],
     [text |-> "\"a.png\"", files |-> <<"a.png">>],
     [text |-> "\".\",\"a.png\",\"b.png\"", files |-> <<".", "a.png", "b.png">>]}

\* the names the deletion loop acts on
RECURSIVE Deletable(_)
Deletable(files) ==
    IF files = <<>> THEN <<>>
    ELSE IF Head(files) \in {"", ".", ".."} THEN Deletable(Tail(files))
    ELSE <<Head(files)>> \o Deletable(Tail(files))

Flows == {"capture_screenshot", "setup_screenshot_dir", "clear_temp_directory"}

\* the transport call the caller is about to make
FlowCommand(me) ==
    CASE me.pc = "save" -> W("SAVE:IMAGe " \o Quoted(TempFile(me.count)))
      [] me.pc = "opc_w" -> W("*OPC?")
      [] me.pc = "opc_r" -> R("1")
      [] me.pc = "readfile" -> W("FILESystem:READFile " \o Quoted(TempFile(me.count)))
      [] me.pc = "read_raw" -> R("<image " \o ToString(me.count) \o ">")
      [] me.pc = "delete" -> W("FILESystem:DELEte " \o Quoted(TempFile(me.count)))
      [] me.pc = "mkdir" -> W("FILESystem:MKDir " \o Quoted(TempDir))
      [] me.pc = "cwd" -> W("FILESystem:CWD " \o Quoted(TempDir))
      [] me.pc = "dir_w" -> W("FILESystem:DIR?")
      [] me.pc = "dir_r" -> R(me.seen)
      [] me.pc = "del" ->
             W("FILESystem:DELEte " \o Quoted(TempDir \o "/" \o Head(me.entries)))
      [] me.pc = "write" /\ me.kind = "get" ->
             write(me.node, PropertyOf(me.node, me.name).get_command.t).ev[1]
      [] me.pc = "write" /\ me.kind = "set" ->
             fset(me.node, PropertyOf(me.node, me.name),
                  ResolveValues(me.node, me.name, shadow, clsValues),
                  me.value, FALSE, 0).ev[1]
      [] me.pc = "read" -> R(me.seen)

\* the call returns normally / raises
Returned(me) == [me EXCEPT !.pc = "done", !.status = "ok"]

Raised(me, e) == [me EXCEPT !.pc = "done", !.status = e]

At(me, pc) == [me EXCEPT !.pc = pc]

\* the transport call succeeded
FlowSucceeded(me) ==
    CASE me.pc = "save" -> At(me, "opc_w")
      [] me.pc = "opc_w" -> At(me, "opc_r")
      [] me.pc = "opc_r" -> At(me, "readfile")
      [] me.pc = "readfile" -> At(me, "read_raw")
      [] me.pc = "read_raw" -> [At(me, "delete") EXCEPT !.result = Str(FlowCommand(me).s)]
      [] me.pc = "delete" -> Returned(me)
      [] me.pc = "mkdir" -> At(me, "cwd")
      [] me.pc = "cwd" -> At(me, "dir_w")
      [] me.pc = "dir_w" -> At(me, "dir_r")
      [] me.pc = "dir_r" ->
             IF Deletable(me.given) = <<>> THEN Returned(me)
             ELSE [At(me, "del") EXCEPT !.entries = Deletable(me.given)]
      [] me.pc = "del" ->
             IF Tail(me.entries) = <<>> THEN Returned([me EXCEPT !.entries = <<>>])
             ELSE [me EXCEPT !.entries = Tail(@)]
      [] me.pc = "write" -> IF me.kind = "get" THEN At(me, "read") ELSE Returned(me)
      [] me.pc = "read" ->
             [Returned(me) EXCEPT !.result = Parse(me.seen)]

\* a failed screenshot attempt retried however many failed before it
FlowFailed_retrying(me) ==
    CASE me.kind = "capture_screenshot" ->
             [At(me, "save") EXCEPT !.count = me.count + 1, !.result = NoVal]
      [] me.kind = "setup_screenshot_dir" /\ me.pc = "mkdir" -> At(me, "cwd")
      [] me.kind \in {"setup_screenshot_dir", "clear_temp_directory"} -> Returned(me)
      [] OTHER -> Raised(me, "TransportError")

\* the transport call raised: what the enclosing code does with the exception
FlowFailed(me) ==
    CASE me.kind = "capture_screenshot" ->
             IF me.count = 1
             THEN [At(me, "save") EXCEPT !.count = 2, !.result = NoVal]
             ELSE Raised(me, "TransportError")
      [] me.kind = "setup_screenshot_dir" /\ me.pc = "mkdir" -> At(me, "cwd")
      [] me.kind \in {"setup_screenshot_dir", "clear_temp_directory"} -> Returned(me)
      [] OTHER -> Raised(me, "TransportError")

FirstStep(flow) ==
    CASE flow = "capture_screenshot" -> "save"
      [] flow = "setup_screenshot_dir" -> "mkdir"
      [] flow = "clear_temp_directory" -> "cwd"
      [] OTHER -> "write"

\* scope.<flow>(), the temp directory holding the given files
FlowCall(c, flow, l) ==
    /\ callers[c].pc = "idle"
    /\ callers' = [callers EXCEPT ![c] =
                      [IdleCaller EXCEPT !.pc = FirstStep(flow), !.kind = flow,
                                         !.node = TektronixBaseScope_root,
                                         !.count = 1, !.given = l.files,
                                         !.seen = l.text]]
    /\ wire' = <<>>
    /\ UNCHANGED <<insts, shadow, clsValues, op, lock, dev>>

\* node.<name> or node.<name> = value over a transport that may fail
AccessCall(c, n, o, v) ==
    /\ callers[c].pc = "idle"
    /\ n.cls = o[2]
    /\ callers' = [callers EXCEPT ![c] =
                      [IdleCaller EXCEPT !.pc = "write", !.kind = o[1], !.node = n,
                                         !.name = o[3], !.value = o[4], !.seen = v]]
    /\ wire' = <<>>
    /\ UNCHANGED <<insts, shadow, clsValues, op, lock, dev>>

\* the next transport call of the running call succeeds
TransportOk(c) ==
    LET me == callers[c]
    IN  /\ me.pc \notin {"idle", "done"}
        /\ me.kind \in Flows \cup {"get", "set"}
        /\ wire' = Append(wire, FlowCommand(me))
        /\ callers' = [callers EXCEPT ![c] = FlowSucceeded(me)]
        /\ UNCHANGED <<insts, shadow, clsValues, op, lock, dev>>

\* the next transport call of the running call raises
TransportFails(c) ==
    LET me == callers[c]
    IN  /\ me.pc \notin {"idle", "done"}
        /\ me.kind \in Flows \cup {"get", "set"}
        /\ me.faults < MaxFaults
        /\ wire' = Append(wire, X(FlowCommand(me).s))
        /\ callers' = [callers EXCEPT ![c] =
                          [FlowFailed(me) EXCEPT !.faults = me.faults + 1]]
        /\ UNCHANGED <<insts, shadow, clsValues, op, lock, dev>>

\* the call returns or raises to its caller
FlowReturn(c) ==
    /\ callers[c].pc = "done"
    /\ callers[c].kind \in Flows \cup {"get", "set"}
    /\ callers' = [callers EXCEPT ![c] = IdleCaller]
    /\ wire' = <<>>
    /\ UNCHANGED <<insts, shadow, clsValues, op, lock, dev>>

FlowNext ==
    \/ \E f \in Flows : \E l \in Listings : FlowCall(Main, f, l)
    \/ \E n \in SharedNodes(insts) : \E o \in BusOps : \E v \in Readings :
          AccessCall(Main, n, o, v)
    \/ TransportOk(Main)
    \/ TransportFails(Main)
    \/ FlowReturn(Main)

SpecFlow == Init /\ [][FlowNext]_vars

\* position of the first transport call that raised, 0 if none did
FirstFault(ev) ==
    IF \E i \in 1..Len(ev) : ev[i].d = "x"
    THEN CHOOSE i \in 1..Len(ev) : ev[i].d = "x" /\ \A j \in 1..(i - 1) : ev[j].d # "x"
    ELSE 0

\* C17 as stated: a transport failure during any write, read or query is
\* surfaced to the caller of the operation that triggered it and nothing is
\* re-issued after it, for property gets and sets and for the helper flows
\* clear_temp_directory, setup_screenshot_dir and capture_screenshot: a call
\* in which a transport call raised ends by raising TransportError, and the
\* failed transport call is the last one the call made.
C17_Original ==
    \A c \in Callers :
        LET me == callers[c]
        IN  (me.kind \in Flows \cup {"get", "set"} /\ me.faults > 0) =>
                /\ me.pc = "done"
                /\ me.status = "TransportError"
                /\ FirstFault(wire) = Len(wire)


-----------------------------------------------------------------------------
(* Every declared property of every driver class, accessed once *)

\* the command groups of the scope besides Acquisition
DeclGroupNodes ==
    {GroupNode(c, TektronixBaseScope_root) : c \in {"Trigger", "Display", "Measurement"}}

\* the nodes of all the drivers, the MSO58 ones included
DeclaredNodes(in) == Nodes(in) \cup MSO58Nodes \cup DeclGroupNodes

\* the character c occurs in the text s
HasChar(s, c) == \E i \in 1..Len(s) : SubSeq(s, i, i) = c

\* the text s ends in the character c
EndsIn(s, c) == Len(s) >= 1 /\ SubSeq(s, Len(s), Len(s)) = c

\* the instrument answers queries only: a command without "?" produces no
\* response message
Answers(text) == HasChar(text, "?")

\* Instrument.ask(command): write the command, then read the answer; the
\* read of an answer that never comes ends when the transport times out
Instrument_ask(command, response) ==
    LET text == Join(command)
    IN  IF Answers(text)
        THEN [status |-> "ok", ev |-> <<W(text), R(response)>>]
        ELSE [status |-> "TransportTimeoutError", ev |-> <<W(text), X("read")>>]

\* a helper method of a command group that is one self.parent.ask(command),
\* its answer returned as text or converted by float()
Ask(n, name, command, response, convert) ==
    LET r == Instrument_ask(command, response)
    IN  /\ Idle
        /\ op' = [NoOp EXCEPT !.kind = "ask", !.node = n, !.name = name,
                              !.cmd = command, !.response = response,
                              !.status = r.status,
                              !.result = IF r.status # "ok" THEN NoVal
                                         ELSE IF convert THEN Parse(response)
                                         ELSE Str(response)]
        /\ wire' = r.ev
        /\ UNCHANGED <<insts, shadow, clsValues, callers, lock, dev>>

MathGroup == GroupNode("Math", TektronixBaseScope_root)

MeasurementGroup == GroupNode("Measurement", TektronixBaseScope_root)

\* identifiers and types the helper methods are called with
MathIds == {"MATH1"}
MeasIds == {"MEAS1"}
MeasTypes == {"FREQUENCY", "PERIOD"}

Math_add_math(response) == Ask(MathGroup, "add_math", <<"MATH:ADDNew">>, response, FALSE)

Math_get_math_define(math_id, response) ==
    Ask(MathGroup, "get_math_define", <<"MATH:", math_id, ":DEFine?">>, response, FALSE)

Measurement_add_measurement(meas_type, response) ==
    Ask(MeasurementGroup, "add_measurement",
        <<"MEASUrement:ADDNew \"", meas_type, "\"">>, response, FALSE)

Measurement_get_measurement_value(meas_id, response) ==
    Ask(MeasurementGroup, "get_measurement_value",
        <<"MEASUrement:", meas_id, ":RESUlts:CURRentacq:MEAN?">>, response, TRUE)

\* a SubSystem under the instrument and, under it, SubSystems of a subclass
\* whose placeholder is "fn"
OuterNode == IntNode("SubSystem", Root("Instrument", 0), 1)

InnerNode(id) ==
    [cls |-> "SubSystem", parent |-> OuterNode, id |-> ToString(id), num |-> id,
     ph |-> "fn"]

NestedNodes == {InnerNode(i) : i \in 2..(MaxId + 1)}

\* commands written through an inner node: both placeholders plain, the outer
\* one with doubled braces, and each placeholder alone
NestedCommands ==
    {<<"F", LB, "fn", RB, ":C", LB, "ch", RB>>,
     <<"F", LB, "fn", RB, ":C", LB, LB, "ch", RB, RB>>,
     <<"F", LB, "fn", RB>>,
     <<"C", LB, "ch", RB>>}

\* a control taking free text: no validator, the value rendered by %s
FreeText(p) == p.set_command.has /\ p.validator = "none" /\ Contains(p.set_command.t, "%s")

FreeTextNames(n) == {name \in PropertyNames(n) : FreeText(PropertyOf(n, name))}

\* label texts a caller may set
FreeTexts == {Str("A"), Str("{ch}"), Str("a{b"), Str("{{x}}")}

DeclNext ==
    \/ Return
    \/ Idle /\ \E slot \in Slots_, model \in KeysightModels : Construct(slot, model)
    \/ Idle /\ \E n \in DeclaredNodes(insts) : \E name \in PropertyNames(n) :
          \E value \in InputValues(PropertyOf(n, name).validator,
                                   ResolveValues(n, name, shadow, clsValues)) :
              PropertySet(n, name, value, FALSE, 0)
    \/ Idle /\ \E n \in DeclaredNodes(insts) : \E name \in PropertyNames(n) :
          \E response \in Responses :
              PropertyGet(n, name, response, FALSE, 0)
    \/ Idle /\ \E n \in DeclaredNodes(insts) : \E name \in FreeTextNames(n) :
          \E value \in FreeTexts : PropertySet(n, name, value, FALSE, 0)
    \/ Idle /\ \E n \in NestedNodes : \E c \in NestedCommands : NodeWrite(n, c)
    \/ Idle /\ \E response \in Readings : Math_add_math(response)
    \/ Idle /\ \E id \in MathIds, response \in Readings : Math_get_math_define(id, response)
    \/ Idle /\ \E t \in MeasTypes, response \in Readings :
          Measurement_add_measurement(t, response)
    \/ Idle /\ \E id \in MeasIds, response \in Readings :
          Measurement_get_measurement_value(id, response)

SpecDecl == Init /\ [][DeclNext]_vars

\* the template the last get or set worked with
OpTemplate == IF op.kind = "get" THEN OpProperty.get_command ELSE OpProperty.set_command

\* the node of the last call is a channel: it has an identity to substitute
OpOnChannel == op.kind \in {"get", "set"} /\ ~IsRoot(op.node) /\ "id" \in DOMAIN op.node

\* C18 as stated: every command template declared on a channel class is
\* resolvable by that class's insert_id, and a get or set whose template
\* references a placeholder the node does not define fails with a template
\* error before anything is handed to the parent or the transport.
C18_Original ==
    (OpOnChannel /\ OpTemplate.has) =>
        /\ insert_id(op.node, OpTemplate.t).ok
        /\ ~insert_id(op.node, OpTemplate.t).ok =>
              op.status \in ValidationErrors \cup {"TemplateError"} /\ wire = <<>>

\* the second half of C18 alone: an access whose template the node cannot
\* resolve transmits nothing and ends in an error
C18_UnresolvedTransmitsNothing ==
    (OpOnChannel /\ OpTemplate.has /\ ~insert_id(op.node, OpTemplate.t).ok) =>
        op.status \in ValidationErrors \cup {"TemplateError"} /\ wire = <<>>

\* MSO58.channels[0].enable = 1 ends in a template error with nothing sent
C18_Reached ==
    /\ op.kind = "set"
    /\ op.node = MSO58Node("MSO58_ScopeChannel", "CH", 1) /\ op.name = "enable"
    /\ op.value = Num(1)
    /\ op.status = "TemplateError"
    /\ wire = <<>>


\* C19 as stated: every write template declared by a control or setting in
\* the drivers contains exactly one value-format slot, so that a set renders
\* its command by substituting exactly one value; the argument-less action
\* settings included.
C19_Original ==
    (op.kind = "set" /\ OpProperty.set_command.has) =>
        SlotCount(OpProperty.set_command.t) = 1

\* PLZ1205W.abort = True is refused: 'ABOR' has no slot to take the value
C19_Reached ==
    /\ op.kind = "set"
    /\ op.node = PLZ1205W_root /\ op.name = "abort"
    /\ op.value = Bool(TRUE)
    /\ SlotCount(OpProperty.set_command.t) = 0
    /\ op.status = "TemplateError"
    /\ wire = <<>>


\* the transport calls of the last operation that wait for a response
Awaits == {i \in 1..Len(wire) : wire[i].d = "r" \/ wire[i] = X("read")}

\* C20 as stated: a response is awaited only after a query: each command
\* after which the code reads from the instrument (the read template of a
\* control or measurement, and every command passed to ask in a helper
\* method) ends in '?', so no caller blocks waiting for an answer to a
\* command that produces none.
C20_Original ==
    /\ \A i \in Awaits : i > 1 /\ wire[i - 1].d = "w" /\ EndsIn(wire[i - 1].s, "?")
    /\ op.status # "TransportTimeoutError"

\* what does hold of the declared properties: every property get transmits a
\* command holding a '?' before it reads, and all but those of the Keysight
\* channels, whose '?' is followed by the channel list, end in it
C20_GetsAreQueries ==
    (op.kind = "get" /\ op.status = "ok") =>
        /\ wire[1].d = "w" /\ HasChar(wire[1].s, "?")
        /\ wire[2].d = "r"
        /\ op.node.cls # "VoltageChannel" => EndsIn(wire[1].s, "?")

\* Math.add_math() waits for an answer to MATH:ADDNew, which has no '?'
C20_Reached ==
    /\ op.kind = "ask" /\ op.name = "add_math"
    /\ wire = <<W("MATH:ADDNew"), X("read")>>
    /\ op.status = "TransportTimeoutError"


\* the command a set transmits when the node's placeholders are substituted
\* in the template first and the value slot is filled afterwards
SubstitutedThenFilled(n, t, v) == Join(PercentFormat(insert_id(n, t).out, v).out)

\* C21 as stated: on a set through a Channel node the node's placeholders are
\* substituted in the template first and the value slot is filled afterwards,
\* so the formatted value is never itself subject to placeholder substitution:
\* setting a free-text control such as BaseScopeChannel.label_name to a string
\* that contains '{ch}' or a brace transmits that string unchanged inside the
\* command.
C21_Original ==
    (op.kind = "set" /\ OpOnChannel /\ FreeText(OpProperty) /\ op.value.k = "str") =>
        /\ op.status = "ok"
        /\ wire = <<W(SubstitutedThenFilled(op.node, OpProperty.set_command.t, op.value))>>

\* what the code does: the value is rendered into the template first and the
\* node substitutes in the rendered command, the value's text included
C21_FilledThenSubstituted ==
    (op.kind = "set" /\ OpOnChannel /\ FreeText(OpProperty) /\ op.value.k = "str") =>
        LET r == insert_id(op.node, PercentFormat(OpProperty.set_command.t, op.value).out)
        IN  IF r.ok THEN op.status = "ok" /\ wire = <<W(Join(r.out))>>
            ELSE op.status = "TemplateError" /\ wire = <<>>

\* ch1.label_name = "{ch}" transmits CH1:LABel:NAMe "1"
C21_Reached ==
    /\ op.kind = "set" /\ op.name = "label_name"
    /\ op.node = IntNode("ScopeChannel", TektronixBaseScope_root, 1)
    /\ op.value = Str("{ch}")
    /\ op.status = "ok"
    /\ wire = <<W("CH1:LABel:NAMe \"1\"")>>


\* the command with every field {fn} replaced by the inner identity and every
\* field {ch} by the outer identity, as text
RECURSIVE BothSubstituted(_, _)
BothSubstituted(s, n) ==
    IF s = <<>> THEN <<>>
    ELSE IF Len(s) >= 3 /\ s[1] = LB /\ s[3] = RB /\ s[2] = Placeholder(n)
         THEN <<IdStr(n)>> \o BothSubstituted(SubSeqFrom(s, 4), n)
    ELSE IF Len(s) >= 3 /\ s[1] = LB /\ s[3] = RB /\ s[2] = Placeholder(n.parent)
         THEN <<IdStr(n.parent)>> \o BothSubstituted(SubSeqFrom(s, 4), n)
    ELSE <<Head(s)>> \o BothSubstituted(Tail(s), n)

OpNested == op.kind = "write" /\ op.node \in NestedNodes

\* C22 as stated: for a SubSystem node nested under another SubSystem node
\* that uses a different placeholder name, writing a template that contains
\* both placeholders through the inner node reaches the root Instrument with
\* the inner placeholder replaced by the inner identity and the outer
\* placeholder replaced by the outer identity, each substituted exactly once.
C22_Original ==
    (OpNested /\ HasField(op.cmd, "fn") /\ HasField(op.cmd, "ch")
        /\ OnlyFields(op.cmd, {"fn", "ch"})) =>
        /\ op.status = "ok"
        /\ wire = <<W(Join(BothSubstituted(op.cmd, op.node)))>>

\* what the code does with a nested node: a field of the outer placeholder
\* makes the inner node's format_map raise KeyError with nothing transmitted;
\* only with the outer field's braces doubled does the command reach the root
\* with both identities in place
C22_InnerRejectsOuterField ==
    /\ (OpNested /\ HasField(op.cmd, "ch") /\ OnlyFields(op.cmd, {"fn", "ch"})) =>
          op.status = "KeyError" /\ wire = <<>>
    /\ (OpNested /\ op.cmd = <<"F", LB, "fn", RB, ":C", LB, LB, "ch", RB, RB>>) =>
          op.status = "ok" /\ wire = <<W("F" \o op.node.id \o ":C1")>>

\* inner.write("F{fn}:C{ch}") raised KeyError and transmitted nothing
C22_Reached ==
    /\ OpNested /\ op.node = InnerNode(2)
    /\ op.cmd = <<"F", LB, "fn", RB, ":C", LB, "ch", RB>>
    /\ op.status = "KeyError"
    /\ wire = <<>>


-----------------------------------------------------------------------------
(* Error checks called on a node *)

CheckMethods == {"check_errors", "check_get_errors", "check_set_errors"}

\* nodes the checks are called on: a root, a channel, a command group and a
\* SubSystem nested under another
CheckNodes ==
    {PLZ1205W_root, StrNode("Chroma63600Channel", Chroma63600_root, "CHAN1"),
     GroupNode("Acquisition", TektronixBaseScope_root), InnerNode(2)}

RECURSIVE Depth(_)
Depth(n) == IF IsRoot(n) THEN 0 ELSE 1 + Depth(n.parent)

\* every check is handed to the parent's check_errors
ForwardedMethod_plain(method) == "check_errors"

\* the parent's method a node's method calls: the one of the same name
ForwardedMethod(method) == method

\* node.<method>() with queue q in the instrument; the root Instrument has
\* check_get_errors and check_set_errors overridden to raise, or not
CheckCall(c, n, method, q, override) ==
    /\ callers[c].pc = "idle"
    /\ callers' = [callers EXCEPT ![c] =
                      [IdleCaller EXCEPT !.pc = "forward", !.kind = "check", !.node = n,
                                         !.name = method, !.ran = method, !.at = n,
                                         !.given = q,
                                         !.seen = IF override THEN "override"
                                                              ELSE "default"]]
    /\ dev' = [dev EXCEPT !.errs = q]
    /\ wire' = <<>>
    /\ UNCHANGED <<insts, shadow, clsValues, op, lock>>

\* SubSystem / CommandGroupSubSystem: return self.parent.<method>()
CheckForward(c) ==
    LET me == callers[c]
    IN  /\ me.pc = "forward"
        /\ ~IsRoot(me.at)
        /\ callers' = [callers EXCEPT ![c] =
                          [me EXCEPT !.at = me.at.parent, !.hops = @ + 1,
                                     !.ran = ForwardedMethod(me.ran)]]
        /\ UNCHANGED <<insts, shadow, clsValues, op, wire, lock, dev>>

\* the root Instrument's method starts: it drains the error queue
CheckAtRoot(c) ==
    LET me == callers[c]
    IN  /\ me.pc = "forward"
        /\ IsRoot(me.at)
        /\ callers' = [callers EXCEPT ![c] =
                          [me EXCEPT !.pc = "check_errors", !.runs = @ + 1]]
        /\ UNCHANGED <<insts, shadow, clsValues, op, wire, lock, dev>>

\* the root's method ends, the override raising on a reported error, and its
\* result is returned through every node on the way back
CheckRootDone(c) ==
    LET me == callers[c]
        raises == /\ me.seen = "override"
                  /\ me.ran \in {"check_get_errors", "check_set_errors"}
                  /\ me.status = "ok"
                  /\ me.entries # <<>>
    IN  /\ me.pc = "done" /\ me.kind = "check"
        /\ callers' = [callers EXCEPT ![c] =
                          [me EXCEPT !.pc = "returned",
                                     !.status = IF raises THEN "InstrumentReportedError"
                                                          ELSE @]]
        /\ UNCHANGED <<insts, shadow, clsValues, op, wire, lock, dev>>

CheckReturned(c) ==
    /\ callers[c].pc = "returned"
    /\ callers' = [callers EXCEPT ![c] = IdleCaller]
    /\ wire' = <<>>
    /\ dev' = NoDevice
    /\ UNCHANGED <<insts, shadow, clsValues, op, lock>>

ChkNext ==
    \/ \E n \in CheckNodes : \E m \in CheckMethods : \E q \in ErrorQueues :
          \E o \in BOOLEAN : CheckCall(Main, n, m, q, o)
    \/ CheckForward(Main)
    \/ CheckAtRoot(Main)
    \/ CheckErrorsQuery(Main)
    \/ CheckErrorsOverflow(Main)
    \/ CheckRootDone(Main)
    \/ CheckReturned(Main)

SpecChk == Init /\ [][ChkNext]_vars

\* C23: check_errors, check_get_errors and check_set_errors called on a
\* Channel or CommandGroup node at any nesting depth run the root Instrument's
\* method of the same name exactly once and return its result unchanged, so
\* an override installed on the root governs the check whichever descendant it
\* is called on, and the node itself issues no error query of its own.
C23_ChecksRunAtRoot ==
    \A c \in Callers : callers[c].kind = "check" =>
        LET me == callers[c]
            closed == check_errors(Len(me.given))
            governed == me.seen = "override" /\ me.name # "check_errors"
        IN  /\ me.pc = "forward" => wire = <<>> /\ me.runs = 0
            /\ me.pc # "forward" =>
                  /\ me.runs = 1
                  /\ me.at = RootOf(me.node)
                  /\ me.hops = Depth(me.node)
                  /\ me.ran = me.name
            /\ me.pc = "returned" =>
                  /\ Len(wire) = Len(closed.ev)
                  /\ \A i \in 1..Len(wire) :
                        IF i % 2 = 1 THEN wire[i] = W(ErrorQuery) ELSE wire[i].d = "r"
                  /\ me.status = IF ~closed.ok THEN closed.err
                                 ELSE IF governed /\ me.given # <<>>
                                      THEN "InstrumentReportedError"
                                 ELSE "ok"
                  /\ closed.ok => me.entries = me.given

\* check_get_errors called on a nested SubSystem, two levels below the root,
\* ended in the error raised by the root's override after one drain of the
\* queue
C23_Witness ==
    /\ callers[Main].kind = "check" /\ callers[Main].pc = "returned"
    /\ callers[Main].node = InnerNode(2)
    /\ callers[Main].name = "check_get_errors"
    /\ callers[Main].hops = 2 /\ callers[Main].runs = 1
    /\ callers[Main].given = <<AnError>>
    /\ callers[Main].status = "InstrumentReportedError"
    /\ wire = <<W(ErrorQuery), R(AnError), W(ErrorQuery), R(NoError)>>


-----------------------------------------------------------------------------
(* PLZ1205W.quick_load: the assignments of one call, one at a time *)

\* in amps
current_range_values == [low |-> Dec(2, 4000), med |-> Num(24), high |-> Num(240)]

RANGE_ENUM_LMH == [LOW |-> Str("LOW"), MEDIUM |-> Str("MED"), HIGH |-> Str("HIGH")]

\* self.<name> = value
Assign(name, value) == [name |-> name, value |-> value]

\* a < b on numbers
Less(a, b) == Micro(a) < Micro(b)

\* the range chosen with the upper limits taken as inclusive
set_current_range_from_load_inclusive(load) ==
    IF ~Less(current_range_values.low, load)
    THEN Assign("current_range", RANGE_ENUM_LMH.LOW)
    ELSE IF ~Less(current_range_values.med, load)
    THEN Assign("current_range", RANGE_ENUM_LMH.MEDIUM)
    ELSE Assign("current_range", RANGE_ENUM_LMH.HIGH)

set_current_range_from_load(load) ==
    IF Less(load, current_range_values.low)
    THEN Assign("current_range", RANGE_ENUM_LMH.LOW)
    ELSE IF Less(load, current_range_values.med)
    THEN Assign("current_range", RANGE_ENUM_LMH.MEDIUM)
    ELSE Assign("current_range", RANGE_ENUM_LMH.HIGH)

\* the range changed with the load already applied
quick_load_range_last(load, auto_range) ==
    <<Assign("load_setpoint", load),
      Assign("output_enabled", Bool(~PyEq(load, Num(0))))>>
    \o (IF auto_range THEN <<set_current_range_from_load(load)>> ELSE <<>>)

\* the property assignments of quick_load(load, auto_range), in program order
quick_load(load, auto_range) ==
    IF PyEq(load, Num(0))
    THEN <<Assign("load_setpoint", load), Assign("output_enabled", Bool(FALSE))>>
         \o (IF auto_range THEN <<set_current_range_from_load(load)>> ELSE <<>>)
    ELSE (IF auto_range
          THEN <<Assign("load_setpoint", Num(0)), Assign("output_enabled", Bool(FALSE)),
                 set_current_range_from_load(load)>>
          ELSE <<>>)
         \o <<Assign("load_setpoint", load), Assign("output_enabled", Bool(TRUE))>>

Loads ==
    {Num(i) : i \in {-1, 0, 1, 2, 3, 24, 25, 240, 241}}
    \cup {Float(10), Dec(0, 5000), Dec(2, 3999), Dec(2, 4000), Dec(23, 9999),
          Dec(123, 4567), Dec(239, 9999), Dec(240, 1)}

\* load_setpoint_values as declared, or assigned on the instance
Overrides == {NoValues, Range(0, 10), Range(1, 240)}

\* the values a property of the load validates against
LoadValues(p, limits) == IF p.dynamic /\ limits.kind # "none" THEN limits ELSE p.values

\* quick_load(load, auto_range) is called
QuickLoad(load, auto_range, limits) ==
    /\ Idle
    /\ op' = [NoOp EXCEPT !.kind = "quick_load", !.value = load, !.auto = auto_range,
                          !.limits = limits, !.pc = 1, !.status = "running"]
    /\ wire' = <<>>
    /\ UNCHANGED <<insts, shadow, clsValues, callers, lock, dev>>

\* the assignment transmitted before it is validated
QuickLoadStep_unvalidated ==
    /\ op.kind = "quick_load" /\ op.status = "running"
    /\ LET prog == quick_load(op.value, op.auto)
           a == prog[op.pc]
           p == PropertyOf(PLZ1205W_root, a.name)
           r == fset(PLZ1205W_root, p, LoadValues(p, op.limits), a.value, FALSE, 0)
           sent == fset(PLZ1205W_root, [p EXCEPT !.validator = "none"],
                        LoadValues(p, op.limits), a.value, FALSE, 0)
       IN  /\ op' = [op EXCEPT !.name = a.name, !.pc = @ + 1,
                               !.status = IF r.status # "ok" THEN r.status
                                          ELSE IF op.pc = Len(prog) THEN "ok"
                                          ELSE "running"]
           /\ wire' = wire \o sent.ev
    /\ UNCHANGED <<insts, shadow, clsValues, callers, lock, dev>>

\* the next assignment of the call: an assignment that raises ends the call
QuickLoadStep ==
    /\ op.kind = "quick_load" /\ op.status = "running"
    /\ LET prog == quick_load(op.value, op.auto)
           a == prog[op.pc]
           p == PropertyOf(PLZ1205W_root, a.name)
           r == fset(PLZ1205W_root, p, LoadValues(p, op.limits), a.value, FALSE, 0)
       IN  /\ op' = [op EXCEPT !.name = a.name, !.pc = @ + 1,
                               !.status = IF r.status # "ok" THEN r.status
                                          ELSE IF op.pc = Len(prog) THEN "ok"
                                          ELSE "running"]
           /\ wire' = wire \o r.ev
    /\ UNCHANGED <<insts, shadow, clsValues, callers, lock, dev>>

\* the call returns or raises to the caller
QuickLoadReturn ==
    /\ op.kind = "quick_load" /\ op.status # "running"
    /\ op' = NoOp
    /\ wire' = <<>>
    /\ UNCHANGED <<insts, shadow, clsValues, callers, lock, dev>>

LoadNext ==
    \/ Idle /\ \E load \in Loads, auto_range \in BOOLEAN, limits \in Overrides :
          QuickLoad(load, auto_range, limits)
    \/ QuickLoadStep
    \/ QuickLoadReturn

SpecLoad == Init /\ [][LoadNext]_vars

\* the text t begins with the text prefix
BeginsWith(t, prefix) == Len(t) >= Len(prefix) /\ SubSeq(t, 1, Len(prefix)) = prefix

\* the commands of the call so far that begin with the prefix
Sent(prefix) == SelectSeq(wire, LAMBDA e : e.d = "w" /\ BeginsWith(e.s, prefix))

LastSent(prefix) == Sent(prefix)[Len(Sent(prefix))].s

LoadReturned == op.kind = "quick_load" /\ op.status = "ok"

\* the range C24 names for a load
NamedRange(load) ==
    IF Micro(load) < 24000 THEN "LOW" ELSE IF Micro(load) < 240000 THEN "MED" ELSE "HIGH"

OutputAndRange ==
    LoadReturned =>
        /\ Sent("OUTP ") # <<>>
        /\ LastSent("OUTP ") = (IF Micro(op.value) = 0 THEN "OUTP 0" ELSE "OUTP 1")
        /\ op.auto =>
              /\ Sent("CURR:RANG ") # <<>>
              /\ LastSent("CURR:RANG ") = "CURR:RANG " \o NamedRange(op.value)
              /\ IndexOf(PLZ1205W_current_range.values.keys,
                         Str(NamedRange(op.value))) # 0

\* C24 as stated: after quick_load returns without error the last setpoint
\* transmitted equals load, the last output command disables for load == 0 and
\* enables otherwise, and with auto_range the last range is LOW below 2.4, MED
\* below 24 and HIGH otherwise, a member of current_range's discrete set
C24_Original ==
    /\ OutputAndRange
    /\ LoadReturned =>
          /\ Sent("CURR ") # <<>>
          /\ LastSent("CURR ") = "CURR " \o DecStr(Micro(op.value))

\* the load has no more than six significant digits
SixDigits(load) == G6(Micro(load)) = Micro(load)

\* C24 amended: the last setpoint transmitted equals load when load has at
\* most six significant digits (otherwise %g has rounded it); the output and
\* range parts hold as stated
C24_SetpointToSixDigits ==
    /\ OutputAndRange
    /\ LoadReturned =>
          /\ Sent("CURR ") # <<>>
          /\ SixDigits(op.value) => LastSent("CURR ") = "CURR " \o DecStr(Micro(op.value))

\* quick_load(2.4, True) has returned: the range is MED
C24_Witness ==
    /\ LoadReturned /\ op.auto /\ op.value = Dec(2, 4000)
    /\ wire = <<W("CURR 0"), W("OUTP 0"), W("CURR:RANG MED"), W("CURR 2.4"), W("OUTP 1")>>

\* quick_load(123.4567, True) has returned with CURR 123.457 transmitted
C24_Rounded ==
    /\ LoadReturned /\ op.value = Dec(123, 4567)
    /\ LastSent("CURR ") = "CURR 123.457"


IsRange(e) == e.d = "w" /\ BeginsWith(e.s, "CURR:RANG ")

IsSetpoint(e) == e.d = "w" /\ BeginsWith(e.s, "CURR ")

Disables(e) == e = W("OUTP 0")

Enables(e) == e = W("OUTP 1")

\* C28: within quick_load with auto_range=True every CURR:RANG command is
\* preceded, in the same call, by CURR 0 and by an output-disable command with
\* no output-enable command in between, and a non-zero setpoint and the
\* output-enable command come only after the range command
C28_RangeChangedWhileOff ==
    (op.kind = "quick_load" /\ op.auto) =>
        /\ \A i \in 1..Len(wire) : IsRange(wire[i]) =>
              /\ \E j \in 1..(i - 1) :
                    /\ wire[j] = W("CURR 0")
                    /\ \A l \in j..i : ~Enables(wire[l])
              /\ \E k \in 1..(i - 1) :
                    /\ Disables(wire[k])
                    /\ \A l \in k..i : ~Enables(wire[l])
        /\ \A l \in 1..Len(wire) :
              (Enables(wire[l]) \/ (IsSetpoint(wire[l]) /\ wire[l] # W("CURR 0"))) =>
                  \E i \in 1..(l - 1) : IsRange(wire[i])

\* quick_load(25, True) has returned: the range went out between the zeroing
\* and the requested load
C28_Witness ==
    /\ LoadReturned /\ op.auto /\ op.value = Num(25)
    /\ wire = <<W("CURR 0"), W("OUTP 0"), W("CURR:RANG HIGH"), W("CURR 25"), W("OUTP 1")>>

\* the call ended in an assignment refused by its validator
LoadRejected == op.kind = "quick_load" /\ op.status = "RangeError"

\* C29: when quick_load fails because the load is rejected by validation, the
\* call has transmitted no output-enable command and no setpoint other than 0,
\* and with auto_range=False nothing at all
C29_RejectedLoadLeavesOutputOff ==
    LoadRejected =>
        /\ \A i \in 1..Len(wire) :
              /\ ~Enables(wire[i])
              /\ IsSetpoint(wire[i]) => wire[i] = W("CURR 0")
        /\ ~op.auto => wire = <<>>

\* quick_load(241, True) has raised on the requested load, after the zeroing
\* and the range change
C29_Witness ==
    /\ LoadRejected /\ op.auto /\ op.value = Num(241) /\ op.name = "load_setpoint"
    /\ wire = <<W("CURR 0"), W("OUTP 0"), W("CURR:RANG HIGH")>>

\* quick_load(25, False) has raised under an instance limit of [0, 10],
\* nothing transmitted
C29_OverrideWitness ==
    /\ LoadRejected /\ ~op.auto /\ op.value = Num(25) /\ op.limits = Range(0, 10)
    /\ wire = <<>>


-----------------------------------------------------------------------------
(* Measurement.measure_rms: one statement at a time *)

\* gating arguments, and the answers of the instrument to MEASUrement:GATing?
GatingArgs == {"SCREEN", "CURSOR", "OFF", "BOGUS"}
GatingAnswers == {"OFF", "SCREEN", "CURS"}

\* the outcome of one self.parent.ask: an answer, or none before the timeout
\* (whether the instrument answers MEASUrement:ADDNew is left open here)
AskOutcomes == {"MEAS1", "1", "ON", ""}

\* measure_rms(source, gating) is called
MeasureRms(gating) ==
    /\ Idle
    /\ op' = [NoOp EXCEPT !.kind = "measure_rms", !.node = MeasurementGroup,
                          !.value = Str(gating), !.pc = 1, !.status = "running"]
    /\ wire' = <<>>
    /\ UNCHANGED <<insts, shadow, clsValues, callers, lock, dev>>

RmsAt(pc) == op.kind = "measure_rms" /\ op.status = "running" /\ op.pc = pc

\* old_gating = self.gating
RmsReadGating(response) ==
    LET p == Measurement("gating")
        r == fget(MeasurementGroup, p, p.values, response, FALSE, 0)
    IN  /\ RmsAt(1)
        /\ op' = [op EXCEPT !.pc = 2, !.result = r.value,
                            !.status = IF r.status = "ok" THEN "running" ELSE r.status]
        /\ wire' = wire \o r.ev
        /\ UNCHANGED <<insts, shadow, clsValues, callers, lock, dev>>

\* self.gating = gating
RmsSetGating ==
    LET p == Measurement("gating")
        r == fset(MeasurementGroup, p, p.values, op.value, FALSE, 0)
    IN  /\ RmsAt(2)
        /\ op' = [op EXCEPT !.pc = 3,
                            !.status = IF r.status = "ok" THEN "running" ELSE r.status]
        /\ wire' = wire \o r.ev
        /\ UNCHANGED <<insts, shadow, clsValues, callers, lock, dev>>

\* one self.parent.ask(command) of the call: the command is written, then the
\* answer is read or the read times out
AskStep(command, outcome) ==
    IF outcome = ""
    THEN [status |-> "TransportTimeoutError", ev |-> <<W(Join(command)), X("read")>>]
    ELSE [status |-> "ok", ev |-> <<W(Join(command)), R(outcome)>>]

\* meas_id = self.add_measurement("RMS", source)
RmsAdd(outcome) ==
    LET r == AskStep(<<"MEASUrement:ADDNew \"", "RMS", "\"">>, outcome)
    IN  /\ RmsAt(3)
        /\ op' = [op EXCEPT !.pc = 4, !.response = outcome,
                            !.status = IF r.status = "ok" THEN "running" ELSE r.status]
        /\ wire' = wire \o r.ev
        /\ UNCHANGED <<insts, shadow, clsValues, callers, lock, dev>>

\* result = self.get_measurement_value(meas_id): float() of the answer
RmsReadResult(outcome) ==
    LET r == AskStep(<<"MEASUrement:", op.response, ":RESUlts:CURRentacq:MEAN?">>, outcome)
    IN  /\ RmsAt(4)
        /\ op' = [op EXCEPT !.pc = 5,
                            !.status = IF r.status # "ok" THEN r.status
                                       ELSE IF ~IsNumber(Parse(outcome)) THEN "ValueError"
                                       ELSE "running"]
        /\ wire' = wire \o r.ev
        /\ UNCHANGED <<insts, shadow, clsValues, callers, lock, dev>>

\* self.gating = old_gating; return result
RmsRestore ==
    LET p == Measurement("gating")
        r == fset(MeasurementGroup, p, p.values, op.result, FALSE, 0)
    IN  /\ RmsAt(5)
        /\ op' = [op EXCEPT !.pc = 6, !.status = r.status]
        /\ wire' = wire \o r.ev
        /\ UNCHANGED <<insts, shadow, clsValues, callers, lock, dev>>

\* the call returns or raises to the caller
RmsReturn ==
    /\ op.kind = "measure_rms" /\ op.status # "running"
    /\ op' = NoOp
    /\ wire' = <<>>
    /\ UNCHANGED <<insts, shadow, clsValues, callers, lock, dev>>

RmsNext ==
    \/ Idle /\ \E gating \in GatingArgs : MeasureRms(gating)
    \/ \E response \in GatingAnswers : RmsReadGating(response)
    \/ RmsSetGating
    \/ \E outcome \in AskOutcomes : RmsAdd(outcome)
    \/ \E outcome \in AskOutcomes : RmsReadResult(outcome)
    \/ RmsRestore
    \/ RmsReturn

SpecRms == Init /\ [][RmsNext]_vars

GatingSent == Sent("MEASUrement:GATing ")

\* the call has ended with the gating changed on the way
RmsExited == op.kind = "measure_rms" /\ op.status # "running" /\ GatingSent # <<>>

\* C25 as stated: on every exit of measure_rms after the gating was changed,
\* normal or by a failure while adding or reading the measurement, the last
\* gating value transmitted is the one read at entry
C25_Original ==
    RmsExited => LastSent("MEASUrement:GATing ") = "MEASUrement:GATing " \o PyStr(op.result)

\* what the code does: a call that returns normally has read the gating,
\* written the requested one, added the measurement, read the result and
\* written back the gating read at entry, in this order
C25_NormalReturnRestores ==
    (op.kind = "measure_rms" /\ op.status = "ok") =>
        /\ Len(wire) = 8
        /\ wire[1] = W("MEASUrement:GATing?") /\ wire[2] = R(PyStr(op.result))
        /\ wire[3] = W("MEASUrement:GATing " \o PyStr(op.value))
        /\ wire[4] = W("MEASUrement:ADDNew \"RMS\"")
        /\ wire[6].d = "w" /\ wire[7].d = "r"
        /\ wire[8] = W("MEASUrement:GATing " \o PyStr(op.result))

\* and a call that fails after changing the gating leaves the requested
\* gating as the last one transmitted
C25_FailureLeavesRequested ==
    (RmsExited /\ op.status # "ok") =>
        LastSent("MEASUrement:GATing ") = "MEASUrement:GATing " \o PyStr(op.value)

\* measure_rms("CH1", "CURSOR") with the gating OFF has timed out reading the
\* result: the last gating transmitted is CURSOR
C25_Reached ==
    /\ RmsExited /\ op.status = "TransportTimeoutError" /\ op.pc = 5
    /\ op.result = Str("OFF") /\ op.value = Str("CURSOR")
    /\ LastSent("MEASUrement:GATing ") = "MEASUrement:GATing CURSOR"


-----------------------------------------------------------------------------
(* capture_screenshot: attempts and temporary files *)

\* the transport calls of the running call, made or raised, that start a
\* screenshot transfer
Attempts == Cardinality({i \in 1..Len(wire) : BeginsWith(wire[i].s, "SAVE:IMAGe ")})

\* C26: capture_screenshot performs the transfer at most twice per call: a
\* first attempt that succeeds returns its data with no second attempt, a
\* first attempt that fails is followed by exactly one more, and a failure of
\* the second attempt is raised to the caller
C26_AtMostTwoTransfers ==
    LET me == callers[Main]
    IN  me.kind = "capture_screenshot" =>
            /\ Attempts <= 2
            /\ (me.pc = "done" /\ me.faults = 0) =>
                  /\ Attempts = 1
                  /\ me.status = "ok" /\ me.result = Str("<image 1>")
            /\ (me.pc = "done" /\ me.faults >= 1) => Attempts = 2
            /\ (me.pc = "done" /\ me.faults = 1) =>
                  me.status = "ok" /\ me.result = Str("<image 2>")
            /\ me.faults >= 2 => me.pc = "done" /\ me.status = "TransportError"

\* the first attempt failed at the raw read, the second one returned its data
C26_Witness ==
    LET me == callers[Main]
    IN  /\ me.kind = "capture_screenshot" /\ me.pc = "done" /\ me.status = "ok"
        /\ me.faults = 1 /\ me.result = Str("<image 2>")
        /\ Len(wire) = 11 /\ wire[5].d = "x"

SavedFile(a) == \E i \in 1..Len(wire) : wire[i] = W("SAVE:IMAGe " \o Quoted(TempFile(a)))

DeletedFile(a) ==
    \E i \in 1..Len(wire) : wire[i] = W("FILESystem:DELEte " \o Quoted(TempFile(a)))

\* the six transport calls of one complete attempt on the a-th file
AttemptOn(a) ==
    <<W("SAVE:IMAGe " \o Quoted(TempFile(a))), W("*OPC?"), R("1"),
      W("FILESystem:READFile " \o Quoted(TempFile(a))),
      R("<image " \o ToString(a) \o ">"),
      W("FILESystem:DELEte " \o Quoted(TempFile(a)))>>

\* C30 as stated: whenever capture_screenshot returns or raises, a
\* FILESystem:DELEte has been transmitted for every file for which the call
\* transmitted SAVE:IMAGe, the file of a failed first attempt included, and an
\* attempt runs SAVE:IMAGe, *OPC? answered, READFile, raw read, DELEte on one file
C30_Original ==
    LET me == callers[Main]
    IN  (me.kind = "capture_screenshot" /\ me.pc = "done") =>
            /\ \A a \in 1..2 : SavedFile(a) => DeletedFile(a)
            /\ me.status = "ok" =>
                  SubSeq(wire, Len(wire) - 5, Len(wire)) = AttemptOn(me.count)

\* what the code does: the attempt that succeeds runs in the stated order on
\* one file and deletes it
C30_OrderWithinAttempt ==
    LET me == callers[Main]
    IN  (me.kind = "capture_screenshot" /\ me.pc = "done" /\ me.status = "ok") =>
            /\ Len(wire) >= 6
            /\ SubSeq(wire, Len(wire) - 5, Len(wire)) = AttemptOn(me.count)

\* and no attempt that failed has its file deleted: the retry works on a new
\* file, and the exception of the second attempt leaves the call
C30_FailedAttemptKeepsFile ==
    LET me == callers[Main]
    IN  me.kind = "capture_screenshot" =>
            /\ me.count = 2 => ~DeletedFile(1)
            /\ me.status = "TransportError" => ~DeletedFile(2)

\* the call has returned the second image with the first file saved on the
\* scope and never deleted
C30_Reached ==
    LET me == callers[Main]
    IN  /\ me.kind = "capture_screenshot" /\ me.pc = "done" /\ me.status = "ok"
        /\ SavedFile(1) /\ ~DeletedFile(1) /\ DeletedFile(2)


-----------------------------------------------------------------------------
(* Commands through a channel and the channel they name *)

\* the text sub occurs in the text
OccursIn(text, sub) ==
    \E i \in 1..(Len(text) - Len(sub) + 1) : SubSeq(text, i, i + Len(sub) - 1) = sub

\* the other channels of the same class on the same instrument
Siblings(n) ==
    {m \in Nodes(insts) : ~IsRoot(m) /\ m.cls = n.cls /\ m.parent = n.parent
                            /\ IdStr(m) # IdStr(n)}

\* what the access just made would put on the wire through the channel m
CommandOn(m) ==
    IF op.kind = "set"
    THEN fset(m, PropertyOf(m, op.name), ResolveValues(m, op.name, shadow, clsValues),
              op.value, FALSE, 0).ev
    ELSE fget(m, PropertyOf(m, op.name), ResolveValues(m, op.name, shadow, clsValues),
              op.response, FALSE, 0).ev

\* an access through a channel of the class has put its command on the wire
AccessedThrough(cls) ==
    op.kind \in {"set", "get"} /\ op.node.cls = cls /\ wire # <<>>

Addressed ==
    /\ OccursIn(wire[1].s, IdStr(op.node))
    /\ \A m \in Siblings(op.node) : CommandOn(m) # <<>> => CommandOn(m)[1] # wire[1]

\* C27 as stated: a command issued through a channel carries the channel's
\* identity, so that for one property and value the commands of two channels
\* of one instrument differ, on VoltageChannel and on Chroma63600Channel
C27_Original ==
    /\ AccessedThrough("VoltageChannel") => Addressed
    /\ AccessedThrough("Chroma63600Channel") => Addressed

\* what the code does: the VoltageChannel templates carry (@{ch}) and their
\* commands name the channel
C27_VoltageChannelAddressed == AccessedThrough("VoltageChannel") => Addressed

\* and the Chroma63600Channel templates carry no {ch}: the command is the
\* same text through every channel and names none
C27_ChromaCommandsAlike ==
    AccessedThrough("Chroma63600Channel") =>
        /\ ~OccursIn(wire[1].s, IdStr(op.node))
        /\ \A m \in Siblings(op.node) : CommandOn(m) # <<>> /\ CommandOn(m)[1] = wire[1]

\* CHAN1.current_setpoint = 10 has put CURR 10 on the wire, as CHAN2 would
C27_Reached ==
    /\ AccessedThrough("Chroma63600Channel") /\ op.kind = "set"
    /\ op.node = StrNode("Chroma63600Channel", Chroma63600_root, "CHAN1")
    /\ op.name = "current_setpoint" /\ op.value = Num(10)
    /\ wire = <<W("CURR 10")>>
    /\ \E m \in Siblings(op.node) : IdStr(m) = "CHAN2" /\ CommandOn(m) = wire

\* output_enabled = True through channel 2 of a Keysight supply names channel 2
C27_VoltageReached ==
    /\ AccessedThrough("VoltageChannel") /\ op.kind = "set"
    /\ op.name = "output_enabled" /\ IdStr(op.node) = "2"
    /\ wire = <<W("OUTPut 1, (@2)")>>

=============================================================================
